---------------------------- MODULE Spec2Model ----------------------------
(***************************************************************************)
(* README generator: the client's generation cycle (handleGenerate and the *)
(* pure functions it calls: parseGitHubUrl, fetchRepoTree, formatFileTree, *)
(* the heuristics, buildReadme) and the relay (the generate-readme edge    *)
(* function: its request handler, sanitizeStr, takeLines, parseSections).  *)
(*                                                                         *)
(* Strings are TLA+ strings handled character by character (Len, SubSeq,   *)
(* \o).  A Markdown document is the sequence of its lines, that is         *)
(* md.split("\n").                                                         *)
(***************************************************************************)
EXTENDS Integers, Sequences, FiniteSets, TLC

VARIABLES
  \* ---- client: React state of ReadmeGenerator
  repoUrl, includeTree, useAI, loading, readme, aiSections, detect, repoInfo,
  \* ---- client: the running handleGenerate invocation
  pc,        \* where the invocation is suspended ("idle": none running)
  cl,        \* what the invocation's closure captured at submit
  pending,   \* the four concurrent retrievals: "none" | "wait" | settled value
  loc,       \* the invocation's local variables
  calls,     \* network requests issued by the current invocation, in order
  toast,     \* the toasts shown by the current invocation, in order
  \* ---- buildReadme applied to drawn inputs
  cin, cout,
  \* ---- relay: one request through the serve handler
  rq, rpc, provider, fallbackRan, outbound, resp,
  \* ---- formatFileTree and guessPackageManager applied to drawn listings
  listing, formatted, guessed,
  \* ---- theme: the page from its load on, with the ThemeToggle component
  stored,       \* localStorage "theme": NoTheme when the key is absent
  prefersDark,  \* matchMedia("(prefers-color-scheme: dark)").matches
  theme,        \* the component's state, NoTheme before it mounts
  rootDark,     \* the document element carries the class "dark"
  colorScheme,  \* the document element's style.colorScheme
  tpc,          \* "boot" | "inited" | "mounted" ("parked": no page)
  chosen,       \* history: a theme was stored at load, or the user toggled
  changes       \* history: how often the system preference changed

vars == <<repoUrl, includeTree, useAI, loading, readme, aiSections, detect,
          repoInfo, pc, cl, pending, loc, calls, toast, cin, cout,
          rq, rpc, provider, fallbackRan, outbound, resp,
          listing, formatted, guessed,
          stored, prefersDark, theme, rootDark, colorScheme, tpc, chosen,
          changes>>

clientVars == <<repoUrl, includeTree, useAI, loading, readme, aiSections,
                detect, repoInfo, pc, cl, pending, loc, calls, toast>>
composeVars == <<cin, cout>>
relayVars == <<rq, rpc, provider, fallbackRan, outbound, resp>>
treeVars == <<listing, formatted, guessed>>
themeVars == <<stored, prefersDark, theme, rootDark, colorScheme, tpc, chosen,
               changes>>

-----------------------------------------------------------------------------
(* Strings *)

Ch(s, i) == SubSeq(s, i, i)

MinOf(a, b) == IF a <= b THEN a ELSE b

\* how many times x stands in the sequence s
Count(s, x) == Cardinality({i \in 1..Len(s) : s[i] = x})


\* s.slice(n) and s.slice(0, n) for n >= 0
DropStr(s, n) == IF n >= Len(s) THEN "" ELSE SubSeq(s, n + 1, Len(s))
TakeStr(s, n) == SubSeq(s, 1, MinOf(n, Len(s)))

StartsWithAt(s, p, i) ==
  /\ i >= 1
  /\ i + Len(p) - 1 <= Len(s)
  /\ SubSeq(s, i, i + Len(p) - 1) = p

StartsWith(s, p) == StartsWithAt(s, p, 1)
EndsWith(s, p) == StartsWithAt(s, p, Len(s) - Len(p) + 1)
Includes(s, p) == \E i \in 1..(Len(s) - Len(p) + 1) : StartsWithAt(s, p, i)

\* first index >= from at which a character of set cs stands, 0 when none
FirstOf(s, cs, from) ==
  IF \E i \in from..Len(s) : Ch(s, i) \in cs
  THEN CHOOSE i \in from..Len(s) :
         /\ Ch(s, i) \in cs
         /\ \A j \in from..(i - 1) : Ch(s, j) \notin cs
  ELSE 0

UpperChars == "ABCDEFGHIJKLMNOPQRSTUVWXYZ"
LowerChars == "abcdefghijklmnopqrstuvwxyz"
DigitChars == "0123456789"

CharsOf(s) == {Ch(s, i) : i \in 1..Len(s)}
UpperSet == CharsOf(UpperChars)
LowerSet == CharsOf(LowerChars)
DigitSet == CharsOf(DigitChars)

LowerCh(c) ==
  IF c \in UpperSet
  THEN Ch(LowerChars, CHOOSE i \in 1..26 : Ch(UpperChars, i) = c)
  ELSE c

UpperCh(c) ==
  IF c \in LowerSet
  THEN Ch(UpperChars, CHOOSE i \in 1..26 : Ch(LowerChars, i) = c)
  ELSE c

RECURSIVE ToLower(_)
\* String.prototype.toLowerCase (ASCII)
ToLower(s) == IF s = "" THEN "" ELSE LowerCh(Ch(s, 1)) \o ToLower(DropStr(s, 1))

RECURSIVE ToUpper(_)
\* String.prototype.toUpperCase (ASCII)
ToUpper(s) == IF s = "" THEN "" ELSE UpperCh(Ch(s, 1)) \o ToUpper(DropStr(s, 1))

\* what \s matches (ASCII)
WhiteSpace == {" ", "\t", "\n", "\r", "\f"}

RECURSIVE SkipWs(_, _)
\* first index >= i that holds no white space (Len(s) + 1 when none)
SkipWs(s, i) ==
  IF i <= Len(s) /\ Ch(s, i) \in WhiteSpace THEN SkipWs(s, i + 1) ELSE i

RECURSIVE SkipWsBack(_, _)
\* last index <= i that holds no white space (0 when none)
SkipWsBack(s, i) ==
  IF i >= 1 /\ Ch(s, i) \in WhiteSpace THEN SkipWsBack(s, i - 1) ELSE i

\* String.prototype.trim
Trim(s) == SubSeq(s, SkipWs(s, 1), SkipWsBack(s, Len(s)))

RECURSIVE SplitRange(_, _, _, _)
\* the pieces of s[lo..hi] between the occurrences of the character c
SplitRange(s, c, lo, hi) ==
  IF \A i \in lo..hi : Ch(s, i) # c THEN <<SubSeq(s, lo, hi)>>
  ELSE IF lo = hi THEN <<"", "">>
  ELSE LET mid == (lo + hi) \div 2
           l == SplitRange(s, c, lo, mid)
           r == SplitRange(s, c, mid + 1, hi)
       IN  SubSeq(l, 1, Len(l) - 1) \o <<l[Len(l)] \o r[1]>> \o Tail(r)

\* s.split(c) for a one-character separator c
SplitOn(s, c) == SplitRange(s, c, 1, Len(s))

RECURSIVE JoinRange(_, _, _, _)
JoinRange(parts, sep, lo, hi) ==
  IF lo > hi THEN ""
  ELSE IF lo = hi THEN parts[lo]
  ELSE LET mid == (lo + hi) \div 2
       IN  JoinRange(parts, sep, lo, mid) \o sep \o JoinRange(parts, sep, mid + 1, hi)

\* parts.join(sep)
JoinWith(parts, sep) == JoinRange(parts, sep, 1, Len(parts))

\* the lines of a text: text.split("\n")
Lines(text) == SplitOn(text, "\n")

RECURSIVE DigitsOf(_)
\* decimal rendering of a natural number
DigitsOf(n) ==
  IF n < 10 THEN Ch(DigitChars, n + 1)
  ELSE DigitsOf(n \div 10) \o Ch(DigitChars, (n % 10) + 1)

-----------------------------------------------------------------------------
(* parseGitHubUrl *)

Null == [ok |-> FALSE, owner |-> "", repo |-> ""]
Parsed(o, r) == [ok |-> TRUE, owner |-> o, repo |-> r]

\* url.replace(/^git\+/, "")
StripGitPlus(url) == IF StartsWith(url, "git+") THEN DropStr(url, 4) ELSE url

\* s.replace(/\.git$/, "")
StripDotGit(s) == IF EndsWith(s, ".git") THEN TakeStr(s, Len(s) - 4) ELSE s

SshPrefix == "git@github.com:"

\* cleaned.match(/^git@github\.com:(.+?)\/(.+)$/): the owner is the shortest
\* non-empty text that a "/" and at least one more character follow
SshMatch(cleaned) ==
  LET n == Len(SshPrefix)
      Ks == {k \in (n + 2)..(Len(cleaned) - 1) : Ch(cleaned, k) = "/"}
  IN  IF StartsWith(cleaned, SshPrefix) /\ Ks # {}
      THEN LET k == CHOOSE x \in Ks : \A y \in Ks : x <= y
           IN  Parsed(SubSeq(cleaned, n + 1, k - 1), DropStr(cleaned, k))
      ELSE Null

SchemeChars == LowerSet \cup UpperSet \cup DigitSet \cup {"+", "-", "."}
SpecialSchemes == {"http", "https", "ftp", "ws", "wss"}
\* code points a host may not hold
ForbiddenHostChars == {" ", "\t", "\n", "\r", "#", "/", ":", "<", ">", "?", "@",
                       "[", "\\", "]", "^", "|", "%"}

NoUrl == [ok |-> FALSE, hostname |-> "", pathname |-> ""]

\* host and path of what follows the scheme's "//"
UrlAuthority(rest, special) ==
  LET stop == FirstOf(rest, IF special THEN {"/", "\\", "?", "#"} ELSE {"/", "?", "#"}, 1)
      auth == IF stop = 0 THEN rest ELSE SubSeq(rest, 1, stop - 1)
      ats == {i \in 1..Len(auth) : Ch(auth, i) = "@"}
      hostport == IF ats = {} THEN auth
                  ELSE DropStr(auth, CHOOSE i \in ats : \A j \in ats : j <= i)
      colon == FirstOf(hostport, {":"}, 1)
      host == IF colon = 0 THEN hostport ELSE SubSeq(hostport, 1, colon - 1)
      port == IF colon = 0 THEN "" ELSE DropStr(hostport, colon)
      tail == IF stop = 0 THEN "" ELSE DropStr(rest, stop - 1)
      cut == FirstOf(tail, {"?", "#"}, 1)
      path == IF cut = 0 THEN tail ELSE SubSeq(tail, 1, cut - 1)
  IN  IF \/ special /\ host = ""
         \/ CharsOf(host) \cap ForbiddenHostChars # {}
         \/ ~(CharsOf(port) \subseteq DigitSet)
      THEN NoUrl
      ELSE [ok |-> TRUE, hostname |-> ToLower(host),
            pathname |-> IF path = "" /\ special THEN "/" ELSE path]

\* new URL(s): the hostname and pathname of an absolute URL, or a TypeError
\* (ok = FALSE).  Dot segments and percent-encoding are left as written.
NewURL(s) ==
  LET colon == FirstOf(s, {":"}, 1)
      scheme == ToLower(SubSeq(s, 1, colon - 1))
      after == DropStr(s, colon)
      special == scheme \in SpecialSchemes
      slashes == IF special THEN {"/", "\\"} ELSE {"/"}
  IN  IF \/ colon <= 1
         \/ Ch(s, 1) \notin (LowerSet \cup UpperSet)
         \/ ~(CharsOf(SubSeq(s, 1, colon - 1)) \subseteq SchemeChars)
      THEN NoUrl
      ELSE IF special
      THEN LET k == CHOOSE i \in 1..(Len(after) + 1) :
                      /\ \A j \in 1..(i - 1) : Ch(after, j) \in slashes
                      /\ (i > Len(after) \/ Ch(after, i) \notin slashes)
           IN  UrlAuthority(DropStr(after, k - 1), TRUE)
      ELSE IF StartsWith(after, "//")
      THEN UrlAuthority(DropStr(after, 2), FALSE)
      ELSE LET cut == FirstOf(after, {"?", "#"}, 1)
           IN  [ok |-> TRUE, hostname |-> "",
                pathname |-> IF cut = 0 THEN after ELSE SubSeq(after, 1, cut - 1)]

\* u.pathname.replace(/^\//, "").split("/")
PathParts(pathname) ==
  SplitOn(IF StartsWith(pathname, "/") THEN DropStr(pathname, 1) ELSE pathname, "/")

parseGitHubUrl(url) ==
  LET cleaned == StripDotGit(StripGitPlus(url))
      ssh == SshMatch(cleaned)
      u == NewURL(cleaned)
      parts == PathParts(u.pathname)
  IN  IF ssh.ok THEN ssh
      ELSE IF ~u.ok THEN Null
      ELSE IF u.hostname # "github.com" THEN Null
      ELSE IF Len(parts) < 2 THEN Null
      ELSE Parsed(parts[1], parts[2])

-----------------------------------------------------------------------------
(* formatFileTree *)

\* A tree item is [path |-> String, type |-> "blob" | "tree"].  The nested
\* object the code builds is a function from node paths (sequences of
\* segments) to the node's __type; the children of a node are the paths one
\* segment longer.
Item(p, t) == [path |-> p, type |-> t]

EmptyTree == [q \in {} |-> ""]

\* property names every plain object inherits: cur[part] is truthy for them
\* although no entry was stored
ProtoNames == {"constructor", "toString", "valueOf", "hasOwnProperty",
               "isPrototypeOf", "propertyIsEnumerable", "toLocaleString",
               "__proto__", "__defineGetter__", "__defineSetter__",
               "__lookupGetter__", "__lookupSetter__"}

\* if (!cur[part]) cur[part] = { __type, __children: {} }
AddNode(tr, q, ty) ==
  IF q \in DOMAIN tr THEN tr
  ELSE [x \in (DOMAIN tr) \cup {q} |-> IF x = q THEN ty ELSE tr[x]]

RECURSIVE AddParts(_, _, _, _)
\* the inner loop over the segments of one item, from segment i on; ok = FALSE
\* is the TypeError of reading a property of undefined
AddParts(tr, parts, ty, i) ==
  IF i > Len(parts) THEN [ok |-> TRUE, tr |-> tr]
  ELSE IF parts[i] \in ProtoNames
  THEN [ok |-> i = Len(parts), tr |-> tr]
  ELSE AddParts(AddNode(tr, SubSeq(parts, 1, i),
                        IF i = Len(parts) THEN ty ELSE "tree"),
                parts, ty, i + 1)

RECURSIVE BuildTree(_, _, _)
\* the outer loop over the items
BuildTree(tr, items, i) ==
  IF i > Len(items) THEN [ok |-> TRUE, tr |-> tr]
  ELSE LET r == AddParts(tr, SplitOn(items[i].path, "/"), items[i].type, 1)
       IN  IF r.ok THEN BuildTree(r.tr, items, i + 1) ELSE r

skipDirs == {"node_modules", "dist", "build", ".next", ".git", ".vercel", "coverage"}

\* the box-drawing connectors, written in ASCII: U+2514 U+2500 U+2500 " ",
\* U+251C U+2500 U+2500 " ", and U+2502 "   "
LastConnector == "+-- "
BranchConnector == "|-- "
LastExtension == "    "
BranchExtension == "|   "
MaxTreeLines == 300

\* String.prototype.localeCompare in the root collation: punctuation, then
\* digits, then letters without regard to case; between two names equal up to
\* case, a lower-case letter sorts before its upper-case letter
CollationOrder == " _-,;:!?.'\"()[]{}@*/\\&#%^+<=>|~$0123456789abcdefghijklmnopqrstuvwxyz"

CollationRank(c) ==
  LET l == LowerCh(c)
  IN  IF \E i \in 1..Len(CollationOrder) : Ch(CollationOrder, i) = l
      THEN CHOOSE i \in 1..Len(CollationOrder) : Ch(CollationOrder, i) = l
      ELSE Len(CollationOrder) + 1

RECURSIVE PrimaryCompare(_, _, _)
\* -1, 0, 1: a against b from index i on, case ignored
PrimaryCompare(a, b, i) ==
  IF i > Len(a) /\ i > Len(b) THEN 0
  ELSE IF i > Len(a) THEN -1
  ELSE IF i > Len(b) THEN 1
  ELSE IF CollationRank(Ch(a, i)) < CollationRank(Ch(b, i)) THEN -1
  ELSE IF CollationRank(Ch(a, i)) > CollationRank(Ch(b, i)) THEN 1
  ELSE PrimaryCompare(a, b, i + 1)

RECURSIVE CaseCompare(_, _, _)
CaseCompare(a, b, i) ==
  IF i > Len(a) \/ i > Len(b) THEN 0
  ELSE IF Ch(a, i) = Ch(b, i) THEN CaseCompare(a, b, i + 1)
  ELSE IF Ch(a, i) \in LowerSet THEN -1
  ELSE 1

localeCompare(a, b) ==
  LET p == PrimaryCompare(a, b, 1)
  IN  IF p # 0 THEN p ELSE CaseCompare(a, b, 1)

RECURSIVE SortNames(_)
\* the names of set S in ascending localeCompare order
SortNames(S) ==
  IF S = {} THEN <<>>
  ELSE LET m == CHOOSE x \in S : \A y \in S : localeCompare(x, y) <= 0
       IN  <<m>> \o SortNames(S \ {m})

\* Object.entries(node).filter(([name]) => !name.startsWith("__")), sorted
Entries(tr, parent) ==
  LET kids == {q \in DOMAIN tr : /\ Len(q) = Len(parent) + 1
                                 /\ SubSeq(q, 1, Len(parent)) = parent}
      names == {q[Len(q)] : q \in kids}
  IN  SortNames({n \in names : ~StartsWith(n, "__")})

RECURSIVE RenderFrom_NoSkip(_, _, _, _, _)
\* render without the skipDirs test
RenderFrom_NoSkip(tr, parent, prefix, entries, idx) ==
  IF idx > Len(entries) THEN <<>>
  ELSE LET name == entries[idx]
           isLast == idx = Len(entries)
           connector == IF isLast THEN LastConnector ELSE BranchConnector
           extensionPrefix == IF isLast THEN LastExtension ELSE BranchExtension
           here == parent \o <<name>>
           own == <<prefix \o connector \o name>> \o
                  (IF tr[here] = "tree"
                   THEN RenderFrom_NoSkip(tr, here, prefix \o extensionPrefix,
                                          Entries(tr, here), 1)
                   ELSE <<>>)
       IN  own \o RenderFrom_NoSkip(tr, parent, prefix, entries, idx + 1)

RECURSIVE RenderFrom(_, _, _, _, _)
\* render(node, prefix): the entries from index idx on, each with its subtree
RenderFrom(tr, parent, prefix, entries, idx) ==
  IF idx > Len(entries) THEN <<>>
  ELSE LET name == entries[idx]
           isLast == idx = Len(entries)
           connector == IF isLast THEN LastConnector ELSE BranchConnector
           extensionPrefix == IF isLast THEN LastExtension ELSE BranchExtension
           here == parent \o <<name>>
           own == IF name \in skipDirs THEN <<>>
                  ELSE <<prefix \o connector \o name>> \o
                       (IF tr[here] = "tree"
                        THEN RenderFrom(tr, here, prefix \o extensionPrefix,
                                        Entries(tr, here), 1)
                        ELSE <<>>)
       IN  own \o RenderFrom(tr, parent, prefix, entries, idx + 1)

render(tr) == RenderFrom(tr, <<>>, "", Entries(tr, <<>>), 1)

\* formatFileTree without the slice
formatFileTree_NoLimit(items) ==
  LET b == BuildTree(EmptyTree, items, 1)
  IN  IF ~b.ok THEN [ok |-> FALSE, text |-> ""]
      ELSE [ok |-> TRUE, text |-> JoinWith(render(b.tr), "\n")]

\* formatFileTree(items): ok = FALSE when building the tree throws; else the
\* first 300 rendered lines, joined by "\n"
formatFileTree(items) ==
  LET b == BuildTree(EmptyTree, items, 1)
      all == render(b.tr)
  IN  IF ~b.ok THEN [ok |-> FALSE, text |-> ""]
      ELSE [ok |-> TRUE,
            text |-> JoinWith(SubSeq(all, 1, MinOf(MaxTreeLines, Len(all))), "\n")]

-----------------------------------------------------------------------------
(* Values: a string that may be null or undefined, and sequence helpers *)

Nil == [nil |-> TRUE, v |-> ""]
Str(s) == [nil |-> FALSE, v |-> s]
\* JavaScript truthiness of a string-or-null value
Truthy(o) == ~o.nil /\ o.v # ""

RECURSIVE SumOf(_)
SumOf(ns) == IF Len(ns) = 0 THEN 0 ELSE ns[1] + SumOf(Tail(ns))

FirstN(s, n) == SubSeq(s, 1, MinOf(n, Len(s)))

-----------------------------------------------------------------------------
(* Helpers to enrich the README *)

\* Math.round((v / total) * 1000) / 10, kept in tenths of a percent
PercentTenths(v, total) ==
  IF total = 0 THEN 0 ELSE (2 * v * 1000 + total) \div (2 * total)

\* a number of tenths as JavaScript prints it: 667 is 66.7, 500 is 50
ShowTenths(t) ==
  IF t % 10 = 0 THEN DigitsOf(t \div 10)
  ELSE DigitsOf(t \div 10) \o "." \o DigitsOf(t % 10)

RECURSIVE InsertDesc(_, _)
\* e put into the descending sequence s behind every entry not smaller
InsertDesc(s, e) ==
  IF Len(s) = 0 THEN <<e>>
  ELSE IF s[1][2] >= e[2] THEN <<s[1]>> \o InsertDesc(Tail(s), e)
  ELSE <<e>> \o s

RECURSIVE SortDesc(_, _)
\* entries.sort((a, b) => b[1] - a[1]): stable, descending by the number
SortDesc(done, rest) ==
  IF Len(rest) = 0 THEN done
  ELSE SortDesc(InsertDesc(done, rest[1]), Tail(rest))

\* languagesSummary(langs), langs the entries <<name, bytes>> in key order
languagesSummary(langs) ==
  LET total == SumOf([i \in 1..Len(langs) |-> langs[i][2]])
      entries == SortDesc(<<>>, [i \in 1..Len(langs) |->
                   <<langs[i][1], PercentTenths(langs[i][2], total)>>])
      first8 == FirstN(entries, 8)
  IN  [lines |-> [i \in 1..Len(first8) |->
                    "- " \o first8[i][1] \o ": " \o ShowTenths(first8[i][2]) \o "%"],
       top |-> [i \in 1..MinOf(5, Len(entries)) |-> entries[i][1]]]

\* guessPackageManager with the yarn test first
guessPackageManager_YarnFirst(paths) ==
  LET lower == [i \in 1..Len(paths) |-> ToLower(paths[i])]
      Some(suffix) == \E i \in 1..Len(lower) : EndsWith(lower[i], suffix)
  IN  IF Some("yarn.lock") THEN "yarn"
      ELSE IF Some("pnpm-lock.yaml") THEN "pnpm"
      ELSE IF Some("bun.lockb") THEN "bun"
      ELSE "npm"

guessPackageManager(paths) ==
  LET lower == [i \in 1..Len(paths) |-> ToLower(paths[i])]
      Some(suffix) == \E i \in 1..Len(lower) : EndsWith(lower[i], suffix)
  IN  IF Some("pnpm-lock.yaml") THEN "pnpm"
      ELSE IF Some("yarn.lock") THEN "yarn"
      ELSE IF Some("bun.lockb") THEN "bun"
      ELSE "npm"

\* the table of guessTechFromDeps, in the order the labels are added:
\* <<kind, pattern, label>>, kind "is" for /^p$/ and "starts" for /^p/
TechTable ==
  << <<"is", "react", "React">>, <<"is", "react-dom", "React">>,
     <<"is", "next", "Next.js">>, <<"is", "vite", "Vite">>,
     <<"is", "typescript", "TypeScript">>, <<"is", "tailwindcss", "Tailwind CSS">>,
     <<"starts", "redux", "Redux">>, <<"starts", "@redux", "Redux">>,
     <<"is", "zustand", "Zustand">>, <<"is", "axios", "Axios">>,
     <<"is", "express", "Express">>, <<"is", "fastify", "Fastify">>,
     <<"is", "koa", "Koa">>, <<"starts", "nest", "NestJS">>,
     <<"is", "prisma", "Prisma">>, <<"is", "mongoose", "Mongoose">>,
     <<"is", "drizzle-orm", "Drizzle">>, <<"is", "vitest", "Vitest">>,
     <<"is", "jest", "Jest">>, <<"is", "playwright", "Playwright">>,
     <<"is", "cypress", "Cypress">>, <<"is", "eslint", "ESLint">>,
     <<"is", "prettier", "Prettier">> >>

TechHit(row, allDeps) ==
  \E i \in 1..Len(allDeps) :
    IF row[1] = "is" THEN allDeps[i] = row[2] ELSE StartsWith(allDeps[i], row[2])

RECURSIVE TechFrom(_, _, _)
\* the labels of the rows from i on that hit, each label once (a Set's order)
TechFrom(allDeps, i, acc) ==
  IF i > Len(TechTable) THEN acc
  ELSE TechFrom(allDeps, i + 1,
         IF /\ TechHit(TechTable[i], allDeps)
            /\ \A j \in 1..Len(acc) : acc[j] # TechTable[i][3]
         THEN Append(acc, TechTable[i][3]) ELSE acc)

guessTechFromDeps(allDeps) == TechFrom(allDeps, 1, <<>>)

scriptHint(name, cmd) ==
  LET n == ToLower(name)
  IN  IF n = "dev" THEN "Start development server"
      ELSE IF n = "start" THEN "Start application"
      ELSE IF n = "build" THEN "Build production assets"
      ELSE IF n = "preview" THEN "Preview production build locally"
      ELSE IF n = "test" THEN "Run tests"
      ELSE IF StartsWith(n, "test:") THEN "Run " \o DropStr(n, 5) \o " tests"
      ELSE IF n = "lint" THEN "Run linter"
      ELSE IF n = "format" THEN "Format code"
      ELSE IF Includes(n, "typecheck") \/ n = "tsc" THEN "Type check"
      ELSE IF Includes(n, "deploy") THEN "Deploy project"
      ELSE IF Includes(n, "serve") THEN "Serve app"
      ELSE IF Len(cmd) > 60 THEN TakeStr(cmd, 57) \o "..." ELSE cmd

RECURSIVE MergeKeys(_, _)
\* Object.keys({ ...a, ...b }) for key sequences a and b
MergeKeys(a, b) ==
  IF Len(b) = 0 THEN a
  ELSE MergeKeys(IF \E i \in 1..Len(a) : a[i] = b[1] THEN a ELSE Append(a, b[1]),
                 Tail(b))

KeysOf(pairs) == [i \in 1..Len(pairs) |-> pairs[i][1]]

-----------------------------------------------------------------------------
(* buildReadme *)

\* The backquote (U+0060), which a TLA+ string cannot hold, is written as an
\* apostrophe.
Tick == "'"
fence == Tick \o Tick \o Tick

NoAi == [nil |-> TRUE, description |-> Nil, features |-> Nil,
         installation |-> Nil, usage |-> Nil]
NoDetect == [hasDocker |-> FALSE, hasCI |-> FALSE, hasEnvExample |-> FALSE,
             paths |-> <<>>]
NoLicense == [nil |-> TRUE, spdx_id |-> Nil, name |-> ""]
NoPkg == [description |-> Nil, scripts |-> <<>>, dependencies |-> <<>>,
          devDependencies |-> <<>>, node |-> Nil]

\* info?.name || repo
RepoNameOf(info, repo) == IF info.name # "" THEN info.name ELSE repo

\* (info?.description || pkg?.description || "").trim()
BaseDescription(info, pkg) ==
  Trim(IF Truthy(info.description) THEN info.description.v
       ELSE IF Truthy(pkg.description) THEN pkg.description.v
       ELSE "")

\* info?.license?.spdx_id || info?.license?.name || "N/A"
LicenseOf(info) ==
  IF ~info.license.nil /\ Truthy(info.license.spdx_id) THEN info.license.spdx_id.v
  ELSE IF ~info.license.nil /\ info.license.name # "" THEN info.license.name
  ELSE "N/A"

pmCmd(pm, script) ==
  IF pm = "pnpm" THEN "pnpm " \o script
  ELSE IF pm = "yarn"
  THEN IF script = "run dev" THEN "yarn dev"
       ELSE IF StartsWith(script, "run ") THEN "yarn " \o DropStr(script, 4)
       ELSE "yarn " \o script
  ELSE IF pm = "bun"
  THEN "bun " \o (IF StartsWith(script, "run") /\ SkipWs(script, 4) > 4
                  THEN DropStr(script, SkipWs(script, 4) - 1) ELSE script)
  ELSE "npm " \o script

Char_Keep(c) == IF c \in LowerSet \cup DigitSet \cup {"-"} THEN c ELSE "-"

DockerTag_Collapsed(repoName) ==
  LET l == ToLower(repoName)
      Alnum(i) == Ch(l, i) \in LowerSet \cup DigitSet
      Keep(i) == Alnum(i) \/ i = 1 \/ Alnum(i - 1)
      idx == {i \in 1..Len(l) : Keep(i)}
      F[i \in 0..Len(l)] ==
        IF i = 0 THEN ""
        ELSE F[i - 1] \o (IF ~Keep(i) THEN "" ELSE IF Alnum(i) THEN Ch(l, i) ELSE "-")
  IN  F[Len(l)]

\* repoName.toLowerCase().replace(/[^a-z0-9-]/g, "-")
DockerTag(repoName) ==
  LET l == ToLower(repoName)
      F[i \in 0..Len(l)] == IF i = 0 THEN "" ELSE F[i - 1] \o Char_Keep(Ch(l, i))
  IN  F[Len(l)]

Badges(owner, repo, det) ==
  LET slug == owner \o "/" \o repo
      badgesArr ==
        << "[![License](https://img.shields.io/github/license/" \o slug \o ")](LICENSE)",
           "[![Stars](https://img.shields.io/github/stars/" \o slug \o
             "?style=flat)](https://github.com/" \o slug \o "/stargazers)",
           "[![Issues](https://img.shields.io/github/issues/" \o slug \o
             ")](https://github.com/" \o slug \o "/issues)",
           "[![Last Commit](https://img.shields.io/github/last-commit/" \o slug \o
             ")](https://github.com/" \o slug \o "/commits)" >>
      ci == "[![CI](https://github.com/" \o slug \o
            "/actions/workflows/ci.yml/badge.svg)](https://github.com/" \o slug \o "/actions)"
  IN  JoinWith(IF det.hasCI THEN <<ci>> \o badgesArr ELSE badgesArr, " ")

\* (ai?.features || topics.length || stack.length)
FeaturesGate(ai, topics, stack) ==
  (~ai.nil /\ Truthy(ai.features)) \/ Len(topics) > 0 \/ Len(stack) > 0

PlaceholderBullets ==
  <<"- Production-ready structure", "- DX-focused tooling", "- Extensible configuration">>

FeaturesText_TopicsFirst(ai, topics) ==
  IF Len(topics) > 0 THEN [i \in 1..Len(topics) |-> "- " \o topics[i]]
  ELSE IF ~ai.nil /\ Truthy(ai.features) THEN Lines(ai.features.v)
  ELSE PlaceholderBullets

\* ai?.features || (topics.length ? topics.map(...).join("\n") : placeholders)
FeaturesText(ai, topics) ==
  IF ~ai.nil /\ Truthy(ai.features) THEN Lines(ai.features.v)
  ELSE IF Len(topics) > 0 THEN [i \in 1..Len(topics) |-> "- " \o topics[i]]
  ELSE PlaceholderBullets

Opt(cond, lines) == IF cond THEN lines ELSE <<>>

\* the lines of the document buildReadme returns
BuildMd(p, e) ==
  LET owner == p.owner
      repo == p.repo
      info == p.info
      pkg == p.pkg
      topics == p.topics
      fileTree == e.fileTree
      ai == e.ai
      det == e.detect
      pm == e.pm
      slug == owner \o "/" \o repo
      repoName == RepoNameOf(info, repo)
      baseDescription == BaseDescription(info, pkg)
      license == LicenseOf(info)
      ls == languagesSummary(p.languages)
      allDeps == MergeKeys(KeysOf(pkg.dependencies), KeysOf(pkg.devDependencies))
      stack == guessTechFromDeps(allDeps)
      hasAi(f) == ~ai.nil /\ Truthy(f)
      gate == FeaturesGate(ai, topics, stack)
      toc ==
        <<"- [About](#about)">>
        \o Opt(gate, <<"- [Features](#features)">>)
        \o Opt(Len(stack) > 0, <<"- [Tech Stack](#tech-stack)">>)
        \o Opt(Len(ls.top) > 0, <<"- [Languages](#languages)">>)
        \o <<"- [Getting Started](#getting-started)", "- [Scripts](#scripts)",
             "- [Configuration](#configuration)">>
        \o Opt(hasAi(ai.usage), <<"- [Usage](#usage)">>)
        \o Opt(det.hasDocker, <<"- [Docker](#docker)">>)
        \o Opt(fileTree # "", <<"- [Folder Structure](#folder-structure)">>)
        \o <<"- [Contributing](#contributing)", "- [Roadmap](#roadmap)",
             "- [Security](#security)", "- [License](#license)",
             "- [Acknowledgements](#acknowledgements)", "- [FAQ](#faq)">>
      descriptionBlock ==
        IF hasAi(ai.description)
        THEN LET ds == Lines(ai.description.v)
             IN  [i \in 1..Len(ds) |-> "> " \o ds[i]] \o <<"">>
        ELSE IF baseDescription # "" THEN Lines("> " \o baseDescription) \o <<"">>
        ELSE <<>>
      scriptRows ==
        IF Len(pkg.scripts) = 0 THEN <<"| - | - | - |">>
        ELSE [i \in 1..Len(pkg.scripts) |->
                "| " \o pkg.scripts[i][1] \o " | " \o Tick \o pkg.scripts[i][2] \o Tick
                \o " | " \o scriptHint(pkg.scripts[i][1], pkg.scripts[i][2]) \o " |"]
      installationBlock ==
        IF hasAi(ai.installation) THEN Lines(ai.installation.v) \o <<"">>
        ELSE << fence \o "bash", "# Clone the repo",
                "git clone https://github.com/" \o slug \o ".git",
                "cd " \o repoName, "", "# Install dependencies",
                pmCmd(pm, "install"), fence, "" >>
      runBlock ==
        << fence \o "bash", "# Start dev server", pmCmd(pm, "run dev"), "",
           "# Build for production", pmCmd(pm, "run build"), fence >>
      depLine(d) == "- " \o d[1] \o " " \o d[2]
      depsList ==
        FirstN([i \in 1..Len(pkg.dependencies) |-> depLine(pkg.dependencies[i])], 50)
      devDepsList ==
        FirstN([i \in 1..Len(pkg.devDependencies) |-> depLine(pkg.devDependencies[i])], 50)
      configurationBlock ==
        <<"## Configuration", "">>
        \o Opt(det.hasEnvExample,
               <<"Copy the example environment file and adjust values as needed:", "",
                 fence \o "bash", "cp .env.example .env", fence, "">>)
        \o <<"Common variables you may need (examples, edit for your project):", "",
             fence \o "env", "NODE_ENV=development", "PORT=3000",
             "API_BASE_URL=http://localhost:3000", fence, "">>
      tag == DockerTag(repoName)
      dockerBlock ==
        Opt(det.hasDocker,
            <<"## Docker", "", "Build and run with Docker:", "", fence \o "bash",
              "# Build image", "docker build -t " \o tag \o ":latest .", "",
              "# Run container", "docker run -p 3000:3000 " \o tag \o ":latest",
              fence, "">>)
      structureBlock ==
        Opt(fileTree # "",
            <<"## Folder Structure", "", fence \o "text">> \o Lines(fileTree)
            \o <<fence, "">>)
      contributingBlock ==
        <<"## Contributing", "",
          "Contributions are welcome! Please open an issue or submit a pull request.", "",
          "1. Fork the Project",
          "2. Create your Feature Branch (" \o Tick \o
            "git checkout -b feature/AmazingFeature" \o Tick \o ")",
          "3. Commit your Changes (" \o Tick \o
            "git commit -m 'Add some AmazingFeature'" \o Tick \o ")",
          "4. Push to the Branch (" \o Tick \o
            "git push origin feature/AmazingFeature" \o Tick \o ")",
          "5. Open a Pull Request", "">>
      roadmapBlock ==
        <<"## Roadmap", "", "- [ ] Add more generators",
          "- [ ] Improve prompts and templates",
          "- [ ] Add export formats (PDF/HTML)", "">>
      securityBlock ==
        <<"## Security", "",
          "If you discover a vulnerability, please open a private issue or contact the maintainers.",
          "Never commit real secrets. Rotate any exposed credentials immediately.", "">>
      acknowledgementsBlock ==
        <<"## Acknowledgements", "", "- GitHub API", "- shadcn/ui", "- Tailwind CSS",
          "- Supabase Edge Functions", "">>
      faqBlock ==
        <<"## FAQ", "", "- Why are some sections generic?",
          "  - The generator infers content from repository metadata. Add topics, scripts, and a .env.example to improve results.",
          "- How do I change package manager commands?",
          "  - The generator tries to detect lockfiles. Adjust commands if needed.", "">>
  IN  <<"# " \o repoName, "", Badges(owner, repo, det), "">>
      \o descriptionBlock
      \o <<"## About", "", "- Repository: https://github.com/" \o slug>>
      \o Opt(Truthy(info.homepage), <<"- Homepage: " \o info.homepage.v>>)
      \o <<"- Default branch: " \o Tick \o info.default_branch \o Tick,
           "- License: " \o Tick \o license \o Tick, "",
           "## Table of Contents", "">>
      \o toc \o <<"">>
      \o Opt(gate, <<"## Features", "">> \o FeaturesText(ai, topics) \o <<"">>)
      \o Opt(Len(stack) > 0,
             <<"## Tech Stack", "">> \o [i \in 1..Len(stack) |-> "- " \o stack[i]] \o <<"">>)
      \o Opt(Len(ls.top) > 0,
             <<"## Languages", "">>
             \o (IF Len(ls.lines) > 0 THEN ls.lines ELSE <<"- N/A">>) \o <<"">>)
      \o <<"## Getting Started", "", "### Prerequisites", "",
           "- Node.js (recommended LTS)"
             \o (IF Truthy(pkg.node) THEN " (project specifies " \o pkg.node.v \o ")" ELSE ""),
           "- " \o ToUpper(pm) \o " (or adjust commands for your package manager)", "",
           "### Installation", "">>
      \o installationBlock
      \o <<"### Running Locally", "">> \o runBlock
      \o <<"## Scripts", "", "| Script | Command | Description |", "|---|---|---|">>
      \o scriptRows \o <<"">>
      \o Opt(Len(depsList) > 0, <<"### Dependencies", "">> \o depsList \o <<"">>)
      \o Opt(Len(devDepsList) > 0, <<"### Dev Dependencies", "">> \o devDepsList \o <<"">>)
      \o configurationBlock
      \o Opt(hasAi(ai.usage), <<"## Usage", "">> \o Lines(ai.usage.v) \o <<"">>)
      \o dockerBlock \o structureBlock \o contributingBlock \o roadmapBlock
      \o securityBlock
      \o <<"## License", "",
           "Distributed under the " \o license \o " License. See " \o Tick \o "LICENSE"
             \o Tick \o " for more information.", "">>
      \o acknowledgementsBlock \o faqBlock
      \o <<"---", "", "> Generated with README Generator.", "">>

\* what a call of buildReadme yields: the document, or ok = FALSE for a throw
Returned(md) == [ok |-> TRUE, md |-> md]
Thrown == [ok |-> FALSE, md |-> <<>>]

buildReadme_LicenseUnguarded(p, e) ==
  IF p.info.license.nil THEN Thrown ELSE Returned(BuildMd(p, e))

buildReadme(p, e) == Returned(BuildMd(p, e))

-----------------------------------------------------------------------------
(* Reading a document *)

\* the document "" of useState("")
EmptyDoc == <<"">>

HasLine(md, l) == \E i \in 1..Len(md) : md[i] = l

\* the lines between a level-2 heading (and the blank line under it) and the
\* blank line before the next level-2 heading
SectionBody(md, h) ==
  LET i == CHOOSE x \in 1..Len(md) : md[x] = h /\ \A y \in 1..(x - 1) : md[y] # h
      j == CHOOSE x \in (i + 1)..Len(md) :
             /\ StartsWith(md[x], "## ")
             /\ \A y \in (i + 1)..(x - 1) : ~StartsWith(md[y], "## ")
  IN  SubSeq(md, i + 2, j - 2)

-----------------------------------------------------------------------------
(* The inputs buildReadme is applied to *)

MaxTopics == 2
TopicPool == <<"cli", "docs", "markdown", "generator">>
TopicLists == {SubSeq(TopicPool, 1, n) : n \in 0..MinOf(MaxTopics, Len(TopicPool))}

Licenses ==
  { NoLicense,
    [nil |-> FALSE, spdx_id |-> Str("MIT"), name |-> "MIT License"],
    [nil |-> FALSE, spdx_id |-> Nil, name |-> "Custom License"] }

Descriptions == {Nil, Str("  A widget toolkit. ")}

LanguageHistograms == {<<>>, << <<"CSS", 1>>, <<"TypeScript", 2>> >>}

Manifests ==
  { NoPkg,
    [description |-> Str("From the manifest"),
     scripts |-> << <<"dev", "vite">>, <<"test:e2e", "playwright test">> >>,
     dependencies |-> << <<"react", "^18.2.0">>, <<"react-dom", "^18.2.0">> >>,
     devDependencies |-> << <<"vite", "^5.0.0">> >>,
     node |-> Str(">=18")],
    [description |-> Nil, scripts |-> <<>>,
     dependencies |-> << <<"lodash", "^4.17.21">> >>,
     devDependencies |-> <<>>, node |-> Nil] }

AiFeaturesText == "- Generates a README\n- Detects the stack"

AiInputs ==
  { NoAi,
    [nil |-> FALSE, description |-> Nil, features |-> Nil,
     installation |-> Nil, usage |-> Nil],
    [nil |-> FALSE, description |-> Nil, features |-> Str(AiFeaturesText),
     installation |-> Nil, usage |-> Nil],
    [nil |-> FALSE, description |-> Str("What it is.\n\nWhy it matters."),
     features |-> Str(AiFeaturesText), installation |-> Str("npm ci"),
     usage |-> Str("Run the CLI.")],
    [nil |-> FALSE, description |-> Str("What it is."), features |-> Str(""),
     installation |-> Nil, usage |-> Str("Run the CLI.")] }

FileTreeTexts == {"", "|-- README.md\n+-- src"}

\* repository name, detection flags and package manager, varied together
Flavours ==
  { <<"widget", NoDetect, "npm">>,
    <<"widget", [hasDocker |-> TRUE, hasCI |-> TRUE, hasEnvExample |-> TRUE,
                 paths |-> <<"Dockerfile">>], "pnpm">>,
    <<"My Cool App!", [hasDocker |-> TRUE, hasCI |-> FALSE, hasEnvExample |-> FALSE,
                       paths |-> <<"Dockerfile">>], "yarn">>,
    <<"my__app", [hasDocker |-> TRUE, hasCI |-> FALSE, hasEnvExample |-> TRUE,
                  paths |-> <<"Dockerfile">>], "bun">>,
    <<"Node.js--Kit", [hasDocker |-> TRUE, hasCI |-> TRUE, hasEnvExample |-> FALSE,
                       paths |-> <<"Dockerfile">>], "npm">>,
    <<"", NoDetect, "npm">> }

ComposeInputs ==
  { [p |-> [owner |-> "acme", repo |-> "widget",
            info |-> [name |-> fl[1], description |-> d, homepage |-> Nil,
                      license |-> lic, default_branch |-> "main"],
            languages |-> lg, pkg |-> m, topics |-> t],
     e |-> [fileTree |-> ft, ai |-> ai, detect |-> fl[2], pm |-> fl[3]]] :
    fl \in Flavours, d \in Descriptions, lic \in Licenses,
    lg \in LanguageHistograms, m \in Manifests, t \in TopicLists,
    ai \in AiInputs, ft \in FileTreeTexts }

NotComposed == [done |-> FALSE, ok |-> FALSE, md |-> <<>>]

-----------------------------------------------------------------------------
(* What the client's environment can answer *)

\* the repository URL typed into the form
Urls ==
  { "https://github.com/acme/widget",
    "  https://github.com/acme/gadget.git ",
    "git+https://github.com/acme/gadget.git",
    "git@github.com:acme/gadget.git",
    "http://github.com/acme/gadget",
    "https://github.com/acme/",
    "https://github.com//widget",
    "https://github.com/acme",
    "https://gitlab.com/acme/widget",
    "acme/widget",
    "" }

NoInfo == [name |-> "", description |-> Nil, homepage |-> Nil,
           license |-> NoLicense, default_branch |-> ""]

RepoRecords ==
  { [name |-> "widget", description |-> Str("A widget toolkit."),
     homepage |-> Str("https://widget.example"),
     license |-> [nil |-> FALSE, spdx_id |-> Str("MIT"), name |-> "MIT License"],
     default_branch |-> "trunk"] }

\* HTTP statuses of a failed repository request
RepoFailures == {403, 404}

ManifestReplies ==
  { [how |-> "fail", val |-> NoPkg],        \* no package.json, or any error
    [how |-> "garbled", val |-> NoPkg],     \* atob or JSON.parse throws
    [how |-> "ok",
     val |-> [description |-> Str("From the manifest"),
              scripts |-> << <<"dev", "vite">> >>,
              dependencies |-> << <<"react", "^18.2.0">> >>,
              devDependencies |-> << <<"vite", "^5.0.0">> >>,
              node |-> Nil]] }

TreeListings ==
  { << Item("README.md", "blob"), Item("src", "tree"), Item("src/main.ts", "blob") >>,
    << Item(".env.example", "blob"), Item(".github", "tree"),
       Item(".github/workflows", "tree"), Item(".github/workflows/ci.yml", "blob"),
       Item("Dockerfile", "blob"), Item("node_modules", "tree"),
       Item("node_modules/react", "tree"), Item("pnpm-lock.yaml", "blob") >>,
    << Item("constructor", "tree"), Item("constructor/index.js", "blob") >>,
    << >> }

NoSections == [description |-> Nil, features |-> Nil, installation |-> Nil,
               usage |-> Nil]
FullSections ==
  [description |-> Str("What it is.\n\nWhy it matters."),
   features |-> Str(AiFeaturesText), installation |-> Str("npm ci"),
   usage |-> Str("Run the CLI.")]

\* What the relay request can come back with: kind "throw" (fetch rejects) or
\* "http"; ok is resp.ok; json says whether the body parses; sections is the
\* body's sections object (has = FALSE: the body holds none), each key a
\* string or absent, as the relay serialises them.
RelayReply(kind, ok, json, has, s) ==
  [kind |-> kind, ok |-> ok, json |-> json, has |-> has, sections |-> s]
NoReply == RelayReply("none", FALSE, FALSE, FALSE, NoSections)

RelayReplies ==
  { RelayReply("throw", FALSE, FALSE, FALSE, NoSections),
    RelayReply("http", FALSE, TRUE, FALSE, NoSections),
    RelayReply("http", FALSE, TRUE, TRUE, FullSections),
    RelayReply("http", TRUE, FALSE, FALSE, NoSections),
    RelayReply("http", TRUE, TRUE, FALSE, NoSections),
    RelayReply("http", TRUE, TRUE, TRUE, NoSections),
    RelayReply("http", TRUE, TRUE, TRUE,
               [NoSections EXCEPT !.features = Str(""), !.usage = Str("")]),
    RelayReply("http", TRUE, TRUE, TRUE,
               [NoSections EXCEPT !.features = Str(AiFeaturesText)]),
    RelayReply("http", TRUE, TRUE, TRUE, FullSections) }

-----------------------------------------------------------------------------
(* The client: ReadmeGenerator's state and handleGenerate *)

Waiting == "wait"
Settled == "done"

\* one of the three optional retrievals: failed says what the request did,
\* rejected what its promise did, val what it resolved to
Slot(st, failed, rejected, val) ==
  [st |-> st, failed |-> failed, rejected |-> rejected, val |-> val]

NoPending ==
  [repo |-> [st |-> "none", status |-> 0, info |-> NoInfo],
   languages |-> Slot("none", FALSE, FALSE, <<>>),
   topics |-> Slot("none", FALSE, FALSE, <<>>),
   pkg |-> Slot("none", FALSE, FALSE, NoPkg)]

AllWaiting ==
  [repo |-> [st |-> Waiting, status |-> 0, info |-> NoInfo],
   languages |-> Slot(Waiting, FALSE, FALSE, <<>>),
   topics |-> Slot(Waiting, FALSE, FALSE, <<>>),
   pkg |-> Slot(Waiting, FALSE, FALSE, NoPkg)]

NoRepoInfo == [nil |-> TRUE, info |-> NoInfo, topics |-> <<>>]

NoClosure == [parsed |-> Null, includeTree |-> TRUE, useAI |-> TRUE,
              detect |-> NoDetect]

\* the locals of an invocation, and how it ended (outcome)
NoLocals ==
  [info |-> NoInfo, languages |-> <<>>, topics |-> <<>>, pkg |-> NoPkg,
   tree |-> "none", fileTree |-> "", paths |-> <<>>,
   hasDocker |-> FALSE, hasCI |-> FALSE, hasEnvExample |-> FALSE,
   relay |-> NoReply, ai |-> NoAi, aiStage |-> "none", outcome |-> "none"]

ClientInit ==
  /\ repoUrl = ""
  /\ includeTree = TRUE
  /\ useAI = TRUE
  /\ loading = FALSE
  /\ readme = EmptyDoc
  /\ aiSections = NoAi
  /\ detect = NoDetect
  /\ repoInfo = NoRepoInfo
  /\ pc = "idle"
  /\ cl = NoClosure
  /\ pending = NoPending
  /\ loc = NoLocals
  /\ calls = <<>>
  /\ toast = <<>>

ComposeParked == cin = [p |-> 0, e |-> 0] /\ cout = NotComposed

NoRequest == [method |-> "", hasKey |-> FALSE, body |-> ""]
NoProvider == [kind |-> "none", status |-> 0, readable |-> FALSE, text |-> "",
               json |-> FALSE, content |-> [k |-> "none", s |-> ""]]
NoResponse == [status |-> 0, kind |-> "none", error |-> Nil,
               sections |-> NoSections, raw |-> ""]

RelayParked ==
  /\ rq = NoRequest
  /\ rpc = "parked"
  /\ provider = NoProvider
  /\ fallbackRan = FALSE
  /\ outbound = 0
  /\ resp = NoResponse

NotFormatted == [done |-> FALSE, ok |-> FALSE, text |-> ""]
TreeParked == listing = <<>> /\ formatted = NotFormatted /\ guessed = "parked"

NoTheme == ""
ThemeParked ==
  /\ stored = NoTheme
  /\ prefersDark = FALSE
  /\ theme = NoTheme
  /\ rootDark = FALSE
  /\ colorScheme = ""
  /\ tpc = "parked"
  /\ chosen = FALSE
  /\ changes = 0

-----------------------------------------------------------------------------
(* handleGenerate: one action per suspension point *)

Toast(title, description) == [title |-> title, description |-> description]

\* fetchJson: throw new Error(`GitHub API error ${res.status}: ${text}`)
ApiError(status) == "GitHub API error " \o DigitsOf(status) \o ": "

\* the toast of handleGenerate's catch block
ErrorToast(message) ==
  Toast("Error",
        IF Includes(message, "403")
        THEN "Rate limit reached. Try again later or add a GitHub token."
        ELSE IF message # "" THEN message ELSE "Failed to generate README")

\* an optional retrieval whose rejection is not caught
OptionalSettles_NoCatch(failed, val, dflt) == Slot(Settled, failed, failed, val)

\* fetchJson(...).catch(() => default): the promise never rejects
OptionalSettles(failed, val, dflt) ==
  Slot(Settled, failed, FALSE, IF failed THEN dflt ELSE val)

\* the detection flags of a list of paths
HasDocker(paths) ==
  \E i \in 1..Len(paths) :
    LET p == ToLower(paths[i]) IN EndsWith(p, "dockerfile") \/ Includes(p, "/dockerfile")
HasCI(paths) ==
  \E i \in 1..Len(paths) : StartsWith(ToLower(paths[i]), ".github/workflows/")
HasEnvExample(paths) ==
  \E i \in 1..Len(paths) :
    LET p == ToLower(paths[i])
    IN  \/ EndsWith(p, ".env") \/ EndsWith(p, ".env.example")
        \/ EndsWith(p, ".env.sample") \/ Includes(p, "env.example")

\* the AI step without the resp.ok test
AiOutcome_IgnoresStatus(reply) ==
  IF reply.kind = "throw" \/ ~reply.json THEN [ai |-> NoAi, stage |-> "error"]
  ELSE LET s == IF reply.has THEN reply.sections ELSE NoSections
       IN  [ai |-> [nil |-> FALSE, description |-> s.description,
                    features |-> s.features, installation |-> s.installation,
                    usage |-> s.usage],
            stage |-> "set"]

\* what the try block of the AI step leaves in ai: "error" is its catch
\* (fetch or resp.json() threw), "failed" a non-ok status, "set" the sections
\* of an ok reply (data?.sections || {})
AiOutcome(reply) ==
  IF reply.kind = "throw" THEN [ai |-> NoAi, stage |-> "error"]
  ELSE IF ~reply.ok THEN [ai |-> NoAi, stage |-> "failed"]
  ELSE IF ~reply.json THEN [ai |-> NoAi, stage |-> "error"]
  ELSE LET s == IF reply.has THEN reply.sections ELSE NoSections
       IN  [ai |-> [nil |-> FALSE, description |-> s.description,
                    features |-> s.features, installation |-> s.installation,
                    usage |-> s.usage],
            stage |-> "set"]

\* the end of an invocation without the finally block
EndCycle_NoFinally(l, t, doc) ==
  /\ loc' = l
  /\ toast' = t
  /\ readme' = doc
  /\ loading' = loading
  /\ pc' = "idle"

\* finally { setLoading(false) }, the invocation's locals being l, its toasts t
EndCycle(l, t, doc) ==
  /\ loc' = l
  /\ toast' = t
  /\ readme' = doc
  /\ loading' = FALSE
  /\ pc' = "idle"

\* catch (err) { toast Error }: no document is set
Caught(l, t, message) ==
  EndCycle([l EXCEPT !.outcome = "error"], Append(t, ErrorToast(message)), readme)

\* the arguments of the buildReadme call: detect is the component state the
\* handler closed over when it was created, not the flags of this invocation
CallParams(l) ==
  [owner |-> cl.parsed.owner, repo |-> cl.parsed.repo, info |-> l.info,
   languages |-> l.languages, pkg |-> l.pkg, topics |-> l.topics]
CallExtras(l) ==
  [fileTree |-> l.fileTree, ai |-> l.ai, detect |-> cl.detect,
   pm |-> guessPackageManager(l.paths)]

\* const md = buildReadme(...); setReadme(md); toast "README generated"
Finish(l, t) ==
  LET r == buildReadme(CallParams(l), CallExtras(l))
  IN  IF r.ok
      THEN EndCycle([l EXCEPT !.outcome = "generated"],
                    Append(t, Toast("README generated",
                                    "You can copy or download it now.")),
                    r.md)
      ELSE Caught(l, t, "buildReadme")

\* setDetect(...), then the AI step or, with AI off, the composition
AfterTree(l) ==
  /\ detect' = [hasDocker |-> l.hasDocker, hasCI |-> l.hasCI,
                hasEnvExample |-> l.hasEnvExample, paths |-> l.paths]
  /\ IF cl.useAI
     THEN /\ pc' = "ai"
          /\ calls' = Append(calls, "relay")
          /\ loc' = l
          /\ UNCHANGED <<loading, readme, toast>>
     ELSE /\ Finish([l EXCEPT !.aiStage = "skipped"], toast)
          /\ UNCHANGED calls

\* fetchRepoTree returned treeResp (has = FALSE: null, or no tree member)
TreeDone(l, has, items) ==
  IF ~has THEN AfterTree(l)
  ELSE LET f == formatFileTree(items)
           paths == [i \in 1..Len(items) |-> items[i].path]
       IN  IF f.ok
           THEN AfterTree([l EXCEPT !.tree = "listed", !.paths = paths,
                                    !.fileTree = f.text,
                                    !.hasDocker = HasDocker(paths),
                                    !.hasCI = HasCI(paths),
                                    !.hasEnvExample = HasEnvExample(paths)])
           ELSE /\ Caught([l EXCEPT !.tree = "threw"], toast,
                          "Cannot read properties of undefined")
                /\ UNCHANGED <<detect, calls>>

\* Promise.all resolved, the AI step taken before the file tree
Joined_RelayFirst(pd) ==
  /\ repoInfo' = [nil |-> FALSE, info |-> pd.repo.info, topics |-> pd.topics.val]
  /\ AfterTree([loc EXCEPT !.info = pd.repo.info, !.languages = pd.languages.val,
                           !.topics = pd.topics.val, !.pkg = pd.pkg.val])

\* Promise.all resolved: setRepoInfo, then the optional file tree
Joined(pd) ==
  /\ repoInfo' = [nil |-> FALSE, info |-> pd.repo.info, topics |-> pd.topics.val]
  /\ LET l == [loc EXCEPT !.info = pd.repo.info, !.languages = pd.languages.val,
                          !.topics = pd.topics.val, !.pkg = pd.pkg.val]
     IN  IF cl.includeTree
         THEN /\ pc' = "tree1"
              /\ calls' = Append(calls, "tree")
              /\ loc' = l
              /\ UNCHANGED <<loading, readme, toast, detect>>
         ELSE AfterTree(l)

\* one of the four promises settled, leaving them as pd: Promise.all rejects
\* with the first rejection and resolves once all four are fulfilled
AfterSettle(pd, rejected, message) ==
  /\ pending' = pd
  /\ IF rejected
     THEN /\ Caught(loc, toast, message)
          /\ UNCHANGED <<detect, calls, repoInfo>>
     ELSE IF \A k \in DOMAIN pd : pd[k].st = Settled
     THEN Joined(pd)
     ELSE UNCHANGED <<loading, readme, toast, detect, calls, repoInfo, pc, loc>>

\* the one repository GitHub holds here; every request about another (one
\* with an empty owner or name among them) fails
Exists(parsed) == parsed = Parsed("acme", "widget")

LanguagesReplies ==
  { [failed |-> TRUE, val |-> <<>>],
    [failed |-> FALSE, val |-> << <<"CSS", 1>>, <<"TypeScript", 2>> >>] }
TopicsReplies ==
  { [failed |-> TRUE, val |-> <<>>],
    [failed |-> FALSE, val |-> <<"cli", "docs">>] }
TreeReplies ==
  { [ok |-> FALSE, has |-> FALSE, items |-> <<>>],
    [ok |-> TRUE, has |-> FALSE, items |-> <<>>] }
  \cup { [ok |-> TRUE, has |-> TRUE, items |-> t] : t \in TreeListings }
\* what the request by sha answers once the one by branch name has failed
ShaReplies ==
  { [ok |-> FALSE, has |-> FALSE, items |-> <<>>],
    [ok |-> TRUE, has |-> TRUE,
     items |-> << Item("README.md", "blob"), Item("src", "tree"),
                  Item("src/main.ts", "blob") >>] }

\* parseGitHubUrl(repoUrl.trim()) for each URL the form can hold
ParsedUrls == [u \in Urls |-> parseGitHubUrl(Trim(u))]

\* the form is submitted as the user left it: url typed in, the two switches
\* set to tree and ai; the submit button is disabled while loading
Submit(url, tree, ai) ==
  /\ pc = "idle"
  /\ repoUrl' = url
  /\ includeTree' = tree
  /\ useAI' = ai
  /\ aiSections' = NoAi
  /\ LET parsed == ParsedUrls[url]
     IN  /\ cl' = [parsed |-> parsed, includeTree |-> tree, useAI |-> ai,
                   detect |-> detect]
         /\ IF ~parsed.ok
            THEN /\ EndCycle([NoLocals EXCEPT !.outcome = "invalid"],
                             <<Toast("Invalid URL",
                                     "Please enter a valid GitHub repository URL.")>>,
                             EmptyDoc)
                 /\ pending' = NoPending
                 /\ calls' = <<>>
            ELSE /\ loading' = TRUE
                 /\ readme' = EmptyDoc
                 /\ toast' = <<>>
                 /\ loc' = NoLocals
                 /\ pc' = "join"
                 /\ pending' = AllWaiting
                 /\ calls' = <<"repo", "languages", "topics", "manifest">>
  /\ UNCHANGED <<detect, repoInfo>>

\* fetchJson<RepoInfo>(base)
RepoSettles ==
  /\ pc = "join"
  /\ pending.repo.st = Waiting
  /\ \/ \E info \in RepoRecords :
          /\ Exists(cl.parsed)
          /\ AfterSettle([pending EXCEPT
                            !.repo = [st |-> Settled, status |-> 200, info |-> info]],
                         FALSE, "")
     \/ \E s \in RepoFailures :
          AfterSettle([pending EXCEPT
                         !.repo = [st |-> Settled, status |-> s, info |-> NoInfo]],
                      TRUE, ApiError(s))
  /\ UNCHANGED <<repoUrl, includeTree, useAI, aiSections, cl>>

\* fetchJson(`${base}/languages`).catch(() => ({}))
LanguagesSettles ==
  /\ pc = "join"
  /\ pending.languages.st = Waiting
  /\ \E r \in LanguagesReplies :
       /\ r.failed \/ Exists(cl.parsed)
       /\ LET slot == OptionalSettles(r.failed, r.val, <<>>)
          IN  AfterSettle([pending EXCEPT !.languages = slot], slot.rejected,
                          ApiError(404))
  /\ UNCHANGED <<repoUrl, includeTree, useAI, aiSections, cl>>

\* fetchJson(`${base}/topics`).catch(() => ({ names: [] }))
TopicsSettles ==
  /\ pc = "join"
  /\ pending.topics.st = Waiting
  /\ \E r \in TopicsReplies :
       /\ r.failed \/ Exists(cl.parsed)
       /\ LET slot == OptionalSettles(r.failed, r.val, <<>>)
          IN  AfterSettle([pending EXCEPT !.topics = slot], slot.rejected,
                          ApiError(404))
  /\ UNCHANGED <<repoUrl, includeTree, useAI, aiSections, cl>>

\* fetchJson(`${base}/contents/package.json`).then(decode).catch(() => ({}));
\* a garbled manifest is caught inside the then
ManifestSettles ==
  /\ pc = "join"
  /\ pending.pkg.st = Waiting
  /\ \E r \in ManifestReplies :
       /\ r.how = "fail" \/ Exists(cl.parsed)
       /\ LET slot == IF r.how = "garbled" THEN Slot(Settled, TRUE, FALSE, NoPkg)
                      ELSE OptionalSettles(r.how = "fail", r.val, NoPkg)
          IN  AfterSettle([pending EXCEPT !.pkg = slot], slot.rejected,
                          ApiError(404))
  /\ UNCHANGED <<repoUrl, includeTree, useAI, aiSections, cl>>

\* fetchRepoTree, first try: the tree by branch name
TreeSettles ==
  /\ pc = "tree1"
  /\ \E r \in TreeReplies :
       IF r.ok
       THEN TreeDone([loc EXCEPT !.tree = "notree"], r.has, r.items)
       ELSE /\ pc' = "branch"
            /\ calls' = Append(calls, "branch")
            /\ UNCHANGED <<loading, readme, toast, detect, loc>>
  /\ UNCHANGED <<repoUrl, includeTree, useAI, aiSections, repoInfo, cl, pending>>

\* fetchRepoTree: the branch is resolved to a commit sha
BranchSettles ==
  /\ pc = "branch"
  /\ \E hasSha \in BOOLEAN :
       IF hasSha
       THEN /\ pc' = "tree2"
            /\ calls' = Append(calls, "treeBySha")
            /\ UNCHANGED <<loading, readme, toast, detect, loc>>
       ELSE TreeDone([loc EXCEPT !.tree = "failed"], FALSE, <<>>)
  /\ UNCHANGED <<repoUrl, includeTree, useAI, aiSections, repoInfo, cl, pending>>

\* the second try, made again when it fails
TreeByShaSettles_Retry ==
  /\ pc = "tree2"
  /\ \E r \in ShaReplies :
       IF r.ok
       THEN TreeDone([loc EXCEPT !.tree = "notree"], r.has, r.items)
       ELSE IF Count(calls, "treeBySha") < 2
       THEN /\ calls' = Append(calls, "treeBySha")
            /\ UNCHANGED <<loading, readme, toast, detect, loc, pc>>
       ELSE TreeDone([loc EXCEPT !.tree = "failed"], FALSE, <<>>)
  /\ UNCHANGED <<repoUrl, includeTree, useAI, aiSections, repoInfo, cl, pending>>

\* fetchRepoTree, second try: the tree by sha
TreeByShaSettles ==
  /\ pc = "tree2"
  /\ \E r \in ShaReplies :
       IF r.ok
       THEN TreeDone([loc EXCEPT !.tree = "notree"], r.has, r.items)
       ELSE TreeDone([loc EXCEPT !.tree = "failed"], FALSE, <<>>)
  /\ UNCHANGED <<repoUrl, includeTree, useAI, aiSections, repoInfo, cl, pending>>

\* the request to /functions/v1/generate-readme settles, then the document
\* is composed
RelaySettles ==
  /\ pc = "ai"
  /\ \E reply \in RelayReplies :
       LET o == AiOutcome(reply)
           l == [loc EXCEPT !.relay = reply, !.ai = o.ai, !.aiStage = o.stage]
           t == IF o.stage = "error"
                THEN Append(toast, Toast("AI error", "Failed to contact AI"))
                ELSE IF o.stage = "failed"
                THEN Append(toast, Toast("AI request failed", ""))
                ELSE toast
       IN  /\ aiSections' = IF o.stage = "set" THEN o.ai ELSE aiSections
           /\ Finish(l, t)
  /\ UNCHANGED <<repoUrl, includeTree, useAI, detect, repoInfo, cl, pending, calls>>

Init == ClientInit /\ ComposeParked /\ RelayParked /\ TreeParked /\ ThemeParked

Next ==
  \/ (\E url \in Urls, tree \in BOOLEAN, ai \in BOOLEAN : Submit(url, tree, ai))
       /\ UNCHANGED <<composeVars, relayVars, treeVars, themeVars>>
  \/ RepoSettles /\ UNCHANGED <<composeVars, relayVars, treeVars, themeVars>>
  \/ LanguagesSettles /\ UNCHANGED <<composeVars, relayVars, treeVars, themeVars>>
  \/ TopicsSettles /\ UNCHANGED <<composeVars, relayVars, treeVars, themeVars>>
  \/ ManifestSettles /\ UNCHANGED <<composeVars, relayVars, treeVars, themeVars>>
  \/ TreeSettles /\ UNCHANGED <<composeVars, relayVars, treeVars, themeVars>>
  \/ BranchSettles /\ UNCHANGED <<composeVars, relayVars, treeVars, themeVars>>
  \/ TreeByShaSettles /\ UNCHANGED <<composeVars, relayVars, treeVars, themeVars>>
  \/ RelaySettles /\ UNCHANGED <<composeVars, relayVars, treeVars, themeVars>>

Spec == Init /\ [][Next]_vars

\* an invocation that passed the URL check has ended
CycleOver == pc = "idle" /\ loc.outcome \in {"generated", "error"}

SectionKeys == {"description", "features", "installation", "usage"}

\* the relay's reply holds no sections object, or one without a non-empty text
NoUsableSections(reply) ==
  ~reply.has \/ \A k \in SectionKeys : ~Truthy(reply.sections[k])

\* AI enhancement was off, the request threw, the status was not a success,
\* or the body was unreadable or held no usable sections
AiDegraded ==
  \/ loc.aiStage = "skipped"
  \/ loc.relay.kind = "throw"
  \/ /\ loc.relay.kind = "http"
     /\ ~loc.relay.ok \/ ~loc.relay.json \/ NoUsableSections(loc.relay)

\* C1: whenever the AI step is skipped or fails in one of these ways, the
\* invocation still sets a document, and it is the document buildReadme
\* returns for the same parameters and extras with no AI sections.
C1_AiDegrades ==
  (pc = "idle" /\ loc.aiStage # "none" /\ AiDegraded)
    => /\ loc.outcome = "generated"
       /\ readme # EmptyDoc
       /\ readme = BuildMd(CallParams(loc), [CallExtras(loc) EXCEPT !.ai = NoAi])

C1_Witness ==
  /\ pc = "idle" /\ loc.outcome = "generated"
  /\ loc.relay.kind = "http" /\ ~loc.relay.ok /\ loc.relay.has
  /\ Truthy(loc.relay.sections.features)
  /\ loc.tree = "listed"
  /\ ~HasLine(readme, "- Detects the stack")

RepoFailed == pending.repo.st = Settled /\ pending.repo.status # 200

\* C2: an invocation whose repository request failed ends with the Error
\* toast and no document; any other ends (unless formatting the tree threw)
\* with a generated document, whichever of the languages, topics, manifest
\* and tree retrievals failed, each failed one standing as its empty default.
C2_Join ==
  CycleOver
    => IF RepoFailed
       THEN /\ loc.outcome = "error"
            /\ readme = EmptyDoc
            /\ toast[Len(toast)].title = "Error"
       ELSE loc.tree # "threw"
              => /\ loc.outcome = "generated"
                 /\ toast[Len(toast)].title = "README generated"
                 /\ \A k \in DOMAIN pending : pending[k].st = Settled
                 /\ pending.languages.failed => loc.languages = <<>>
                 /\ pending.topics.failed => loc.topics = <<>>
                 /\ pending.pkg.failed => loc.pkg = NoPkg
                 /\ loc.tree = "failed" => loc.fileTree = "" /\ loc.paths = <<>>
                 /\ readme # EmptyDoc
                 /\ readme = BuildMd(CallParams(loc), CallExtras(loc))

C2_Witness ==
  /\ CycleOver /\ loc.outcome = "generated"
  /\ pending.languages.failed /\ pending.topics.failed /\ pending.pkg.failed
  /\ loc.tree = "failed"
  /\ readme # EmptyDoc
  /\ ~HasLine(readme, "## Languages")

\* C3 (as stated): the Docker section, the CI badge and the env-example
\* snippet stand in a generated document exactly when the tree fetched by the
\* same invocation holds the corresponding file.
C3_AsStated ==
  (pc = "idle" /\ loc.outcome = "generated")
    => /\ HasLine(readme, "## Docker") <=> loc.hasDocker
       /\ StartsWith(readme[3], "[![CI]") <=> loc.hasCI
       /\ HasLine(readme, "cp .env.example .env") <=> loc.hasEnvExample

\* the three URL forms: https://github.com/<owner>/<repo>[.git], the same
\* after git+, and git@github.com:<owner>/<repo>[.git]
AcceptedForm(s) ==
  \E prefix \in {"https://github.com/", "git+https://github.com/", "git@github.com:"} :
    /\ StartsWith(s, prefix)
    /\ LET parts == SplitOn(StripDotGit(DropStr(s, Len(prefix))), "/")
       IN  Len(parts) >= 2 /\ parts[1] # "" /\ parts[2] # ""

\* C8 (as stated): a network call is issued only for an input of one of the
\* three accepted forms that parsed to a non-empty owner and a non-empty
\* repository name.
C8_AsStated ==
  calls # <<>>
    => /\ AcceptedForm(Trim(repoUrl))
       /\ cl.parsed.ok /\ cl.parsed.owner # "" /\ cl.parsed.repo # ""

-----------------------------------------------------------------------------
(* buildReadme applied to drawn inputs *)

ComposeInit ==
  /\ cin \in ComposeInputs
  /\ cout = NotComposed
  /\ ClientInit
  /\ RelayParked
  /\ TreeParked
  /\ ThemeParked

\* const md = buildReadme(params, extras)
Compose ==
  /\ ~cout.done
  /\ LET r == buildReadme(cin.p, cin.e)
     IN  cout' = [done |-> TRUE, ok |-> r.ok, md |-> r.md]
  /\ UNCHANGED <<cin, clientVars, relayVars, treeVars, themeVars>>

ComposeNext == Compose

ComposeSpec == ComposeInit /\ [][ComposeNext]_vars

\* the inputs of the call, as the claims name them
InAiFeatures == ~cin.e.ai.nil /\ Truthy(cin.e.ai.features)
InStack ==
  guessTechFromDeps(MergeKeys(KeysOf(cin.p.pkg.dependencies),
                              KeysOf(cin.p.pkg.devDependencies)))
InRepoName == RepoNameOf(cin.p.info, cin.p.repo)
TopicBullets == [i \in 1..Len(cin.p.topics) |-> "- " \o cin.p.topics[i]]

\* C4 (as stated): with no AI features text and no topics, the document has a
\* Features section whose body is the three placeholder bullets, whatever the
\* manifest.
C4_AsStated ==
  (cout.done /\ ~InAiFeatures /\ cin.p.topics = <<>>)
    => /\ cout.ok
       /\ HasLine(cout.md, "## Features")
       /\ SectionBody(cout.md, "## Features") = PlaceholderBullets

\* C5: when an AI features text is present, the Features section is rendered
\* and its body is that text line for line, for any topics and dependencies;
\* no topic bullet and no placeholder bullet stands in it.
C5_AiFeaturesVerbatim ==
  (cout.done /\ InAiFeatures)
    => /\ cout.ok
       /\ HasLine(cout.md, "## Features")
       /\ JoinWith(SectionBody(cout.md, "## Features"), "\n") = cin.e.ai.features.v
       /\ \A i \in 1..Len(TopicBullets) : ~HasLine(cout.md, TopicBullets[i])
       /\ \A i \in 1..Len(PlaceholderBullets) : ~HasLine(cout.md, PlaceholderBullets[i])

C5_Witness ==
  /\ cout.done /\ cout.ok
  /\ InAiFeatures
  /\ Len(cin.p.topics) > 0
  /\ Len(InStack) > 0
  /\ HasLine(cout.md, "- Detects the stack")

\* C6: buildReadme returns for every combination of present and absent
\* optional inputs; the document is non-empty, its first line is the title
\* "# <repository name>", it has a License section, and when the record holds
\* no license the license value shown is N/A.
C6_Total ==
  cout.done
    => /\ cout.ok
       /\ Len(cout.md) > 0
       /\ cout.md[1] = "# " \o InRepoName
       /\ HasLine(cout.md, "## License")
       /\ cin.p.info.license.nil =>
            /\ HasLine(cout.md, "- License: " \o Tick \o "N/A" \o Tick)
            /\ SectionBody(cout.md, "## License") =
                 <<"Distributed under the N/A License. See " \o Tick \o "LICENSE"
                   \o Tick \o " for more information.">>

C6_Witness ==
  /\ cout.done /\ cout.ok
  /\ cin.p.topics = <<>> /\ cin.p.pkg = NoPkg /\ cin.p.languages = <<>>
  /\ cin.e.fileTree = "" /\ cin.e.ai = NoAi
  /\ cin.p.info.license.nil /\ cin.p.info.description.nil
  /\ cout.md[1] = "# widget"

\* the tag in the document's build and run commands is t
TagShown(t) ==
  /\ HasLine(cout.md, "docker build -t " \o t \o ":latest .")
  /\ HasLine(cout.md, "docker run -p 3000:3000 " \o t \o ":latest")

\* C7 (as stated): the image tag is the lower-cased name with every maximal
\* run of non-alphanumeric characters collapsed to a single hyphen.
C7_AsStated ==
  (cout.done /\ cin.e.detect.hasDocker) => TagShown(DockerTag_Collapsed(InRepoName))

\* C7: the image tag is the lower-cased name in which every character other
\* than a-z, 0-9 and the hyphen is replaced by one hyphen, character for
\* character: the tag is as long as the name and runs are not collapsed.
C7_DockerTag ==
  (cout.done /\ cin.e.detect.hasDocker)
    => LET t == DockerTag(InRepoName)
       IN
         /\ TagShown(t)
         /\ Len(t) = Len(InRepoName)
         /\ \A i \in 1..Len(t) :
              LET c == LowerCh(Ch(InRepoName, i))
              IN  Ch(t, i) = IF c \in LowerSet \cup DigitSet \cup {"-"} THEN c ELSE "-"

C7_Witness ==
  /\ cout.done /\ cin.e.detect.hasDocker
  /\ InRepoName = "my__app"
  /\ TagShown("my--app")

-----------------------------------------------------------------------------
(* JSON.parse, as far as the relay reads its results *)

\* the character at index i, "" outside the string
At(s, i) == IF i >= 1 /\ i <= Len(s) THEN Ch(s, i) ELSE ""

\* A JSON value: t is "null", "bool", "num", "str", "arr" or "obj"
\* ("undefined" for a property that is not there); s is the text of a string,
\* number or boolean; ms holds the elements of an array or the <<key, value>>
\* members of an object, in order.
JV(t, s, ms) == [t |-> t, s |-> s, ms |-> ms]
Undefined == JV("undefined", "", <<>>)

JsonFail == [ok |-> FALSE, v |-> Undefined, next |-> 0]
JsonAt(v, next) == [ok |-> TRUE, v |-> v, next |-> next]

JsonWs == {" ", "\t", "\n", "\r"}

RECURSIVE SkipJsonWs(_, _)
SkipJsonWs(s, i) == IF At(s, i) \in JsonWs THEN SkipJsonWs(s, i + 1) ELSE i

RECURSIVE SkipDigits(_, _)
SkipDigits(s, i) == IF At(s, i) \in DigitSet THEN SkipDigits(s, i + 1) ELSE i

RECURSIVE BackslashRun(_, _)
\* the number of backslashes that stand immediately before index j
BackslashRun(s, j) == IF At(s, j - 1) = "\\" THEN 1 + BackslashRun(s, j - 1) ELSE 0

SimpleEscapes == {"n", "t", "r", "f", "\"", "\\", "/"}

RECURSIVE Unescape(_)
\* the text a string body stands for; the inputs hold no \b and no \u escape
Unescape(b) ==
  LET k == FirstOf(b, {"\\"}, 1)
      e == At(b, k + 1)
      c == IF e = "n" THEN "\n" ELSE IF e = "t" THEN "\t" ELSE IF e = "r" THEN "\r"
           ELSE IF e = "f" THEN "\f" ELSE e
      rest == Unescape(DropStr(b, k + 1))
  IN  IF k = 0 THEN [ok |-> TRUE, s |-> b]
      ELSE IF e \notin SimpleEscapes THEN [ok |-> FALSE, s |-> ""]
      ELSE [ok |-> rest.ok, s |-> SubSeq(b, 1, k - 1) \o c \o rest.s]

\* a string whose opening quote stands at index i
JsonString(s, i) ==
  LET closers == {j \in (i + 1)..Len(s) : Ch(s, j) = "\"" /\ BackslashRun(s, j) % 2 = 0}
      close == CHOOSE j \in closers : \A k \in closers : j <= k
      u == Unescape(SubSeq(s, i + 1, close - 1))
  IN  IF closers = {} THEN JsonFail
      ELSE IF \E k \in (i + 1)..(close - 1) : Ch(s, k) \in {"\n", "\t", "\r", "\f"}
      THEN JsonFail
      ELSE IF ~u.ok THEN JsonFail
      ELSE JsonAt(JV("str", u.s, <<>>), close + 1)

\* -?(0|[1-9][0-9]*)(\.[0-9]+)?([eE][+-]?[0-9]+)?
JsonNumber(s, i) ==
  LET a == IF At(s, i) = "-" THEN i + 1 ELSE i
      b == SkipDigits(s, a)
      hasFrac == At(s, b) = "."
      c == IF hasFrac THEN SkipDigits(s, b + 1) ELSE b
      hasExp == At(s, c) \in {"e", "E"}
      d0 == IF At(s, c + 1) \in {"+", "-"} THEN c + 2 ELSE c + 1
      d == IF hasExp THEN SkipDigits(s, d0) ELSE c
  IN  IF /\ b > a /\ (At(s, a) # "0" \/ b = a + 1)
         /\ hasFrac => c > b + 1
         /\ hasExp => d > d0
      THEN JsonAt(JV("num", SubSeq(s, i, d - 1), <<>>), d)
      ELSE JsonFail

RECURSIVE JsonValue(_, _)
RECURSIVE JsonElements(_, _, _)
RECURSIVE JsonMembers(_, _, _)

\* the value that starts at index i
JsonValue(s, i) ==
  LET c == At(s, i)
      j == SkipJsonWs(s, i + 1)
  IN  IF c = "{"
      THEN IF At(s, j) = "}" THEN JsonAt(JV("obj", "", <<>>), j + 1)
           ELSE JsonMembers(s, j, <<>>)
      ELSE IF c = "["
      THEN IF At(s, j) = "]" THEN JsonAt(JV("arr", "", <<>>), j + 1)
           ELSE JsonElements(s, j, <<>>)
      ELSE IF c = "\"" THEN JsonString(s, i)
      ELSE IF StartsWithAt(s, "true", i) THEN JsonAt(JV("bool", "true", <<>>), i + 4)
      ELSE IF StartsWithAt(s, "false", i) THEN JsonAt(JV("bool", "false", <<>>), i + 5)
      ELSE IF StartsWithAt(s, "null", i) THEN JsonAt(JV("null", "", <<>>), i + 4)
      ELSE IF c = "-" \/ c \in DigitSet THEN JsonNumber(s, i)
      ELSE JsonFail

\* the elements of an array from index i on, acc those read so far
JsonElements(s, i, acc) ==
  LET r == JsonValue(s, i)
      j == SkipJsonWs(s, r.next)
  IN  IF ~r.ok THEN JsonFail
      ELSE IF At(s, j) = ","
      THEN JsonElements(s, SkipJsonWs(s, j + 1), Append(acc, r.v))
      ELSE IF At(s, j) = "]" THEN JsonAt(JV("arr", "", Append(acc, r.v)), j + 1)
      ELSE JsonFail

\* the members of an object from index i on, acc those read so far
JsonMembers(s, i, acc) ==
  LET k == JsonString(s, i)
      j == SkipJsonWs(s, k.next)
      r == JsonValue(s, SkipJsonWs(s, j + 1))
      e == SkipJsonWs(s, r.next)
  IN  IF At(s, i) # "\"" \/ ~k.ok \/ At(s, j) # ":" \/ ~r.ok THEN JsonFail
      ELSE IF At(s, e) = ","
      THEN JsonMembers(s, SkipJsonWs(s, e + 1), Append(acc, <<k.v.s, r.v>>))
      ELSE IF At(s, e) = "}"
      THEN JsonAt(JV("obj", "", Append(acc, <<k.v.s, r.v>>)), e + 1)
      ELSE JsonFail

\* JSON.parse(text): ok = FALSE is its SyntaxError
JSONparse(text) ==
  LET r == JsonValue(text, SkipJsonWs(text, 1))
  IN  IF r.ok /\ SkipJsonWs(text, r.next) = Len(text) + 1
      THEN [ok |-> TRUE, v |-> r.v]
      ELSE [ok |-> FALSE, v |-> Undefined]

\* v.key for a value v that is neither null nor undefined: the last member
\* of that name
Prop(v, key) ==
  LET hits == {i \in 1..Len(v.ms) : v.ms[i][1] = key}
  IN  IF v.t # "obj" \/ hits = {} THEN Undefined
      ELSE v.ms[CHOOSE i \in hits : \A j \in hits : j <= i][2]

\* !v
Falsy(v) ==
  \/ v.t \in {"undefined", "null"}
  \/ v.t = "str" /\ v.s = ""
  \/ v.t = "bool" /\ v.s = "false"
  \/ /\ v.t = "num"
     /\ LET k == FirstOf(v.s, {"e", "E"}, 1)
            mantissa == IF k = 0 THEN v.s ELSE SubSeq(v.s, 1, k - 1)
        IN  CharsOf(mantissa) \cap CharsOf("123456789") = {}

-----------------------------------------------------------------------------
(* The relay: sanitizeStr, takeLines, parseSections, buildPrompt *)

MaxSectionChars == 12000
MaxSectionLines == 400

sanitizeStr_Coerce(v) ==
  IF v.t \in {"undefined", "null"} THEN Nil
  ELSE Str(TakeStr(Trim(v.s), MaxSectionChars))

\* sanitizeStr(v): undefined (Nil) unless v is a string; else v trimmed and
\* cut to its first 12000 characters
sanitizeStr(v) ==
  IF v.t # "str" THEN Nil
  ELSE LET s == Trim(v.s)
       IN  Str(IF Len(s) > MaxSectionChars THEN TakeStr(s, MaxSectionChars) ELSE s)

\* str.split(/\r?\n/).slice(0, maxLines).join("\n")
takeLines(str, maxLines) ==
  LET pieces == SplitOn(str, "\n")
      lines == [i \in 1..Len(pieces) |->
                  IF i < Len(pieces) /\ EndsWith(pieces[i], "\r")
                  THEN TakeStr(pieces[i], Len(pieces[i]) - 1) ELSE pieces[i]]
  IN  JoinWith(FirstN(lines, maxLines), "\n")

\* where markdown.split(/\n(?=##\s+)/g) cuts: the line feeds that "##" and a
\* white-space character follow
SectionCuts(markdown) ==
  {i \in 1..Len(markdown) :
     /\ Ch(markdown, i) = "\n"
     /\ StartsWithAt(markdown, "##", i + 1)
     /\ At(markdown, i + 3) \in WhiteSpace}

RECURSIVE ChunksFrom(_, _, _)
\* the pieces of the split from index start on
ChunksFrom(markdown, cuts, start) ==
  LET later == {c \in cuts : c >= start}
      k == CHOOSE c \in later : \A d \in later : c <= d
  IN  IF later = {} THEN <<SubSeq(markdown, start, Len(markdown))>>
      ELSE <<SubSeq(markdown, start, k - 1)>> \o ChunksFrom(markdown, cuts, k + 1)

NoMatch == [ok |-> FALSE, title |-> "", body |-> ""]

\* sec.match(/^##\s+([^\n]+)\n([\s\S]*)$/): \s+ takes the longest run of white
\* space after which a non-empty rest of line and a line feed follow
MatchSection(sec) ==
  LET t == SkipWs(sec, 3)
      nl == FirstOf(sec, {"\n"}, t)
      shorter == {q \in 4..(t - 1) :
                    Ch(sec, q) # "\n" /\ FirstOf(sec, {"\n"}, q) # 0}
      q == CHOOSE x \in shorter : \A y \in shorter : y <= x
      nlq == FirstOf(sec, {"\n"}, q)
  IN  IF ~(StartsWith(sec, "##") /\ At(sec, 3) \in WhiteSpace) THEN NoMatch
      ELSE IF t <= Len(sec) /\ nl # 0
      THEN [ok |-> TRUE, title |-> SubSeq(sec, t, nl - 1), body |-> DropStr(sec, nl)]
      ELSE IF shorter # {}
      THEN [ok |-> TRUE, title |-> SubSeq(sec, q, nlq - 1), body |-> DropStr(sec, nlq)]
      ELSE NoMatch

RECURSIVE SectionsFrom(_, _, _)
\* the loop over the pieces from piece i on, result being what is set so far
SectionsFrom(chunks, i, result) ==
  IF i > Len(chunks) THEN result
  ELSE LET m == MatchSection(chunks[i])
           title == ToLower(Trim(m.title))
           content == Str(takeLines(Trim(m.body), MaxSectionLines))
       IN  SectionsFrom(chunks, i + 1,
             IF ~m.ok THEN result
             ELSE IF StartsWith(title, "project description")
                     \/ StartsWith(title, "description")
             THEN [result EXCEPT !.description = content]
             ELSE IF StartsWith(title, "features")
             THEN [result EXCEPT !.features = content]
             ELSE IF StartsWith(title, "installation")
             THEN [result EXCEPT !.installation = content]
             ELSE IF StartsWith(title, "usage")
             THEN [result EXCEPT !.usage = content]
             ELSE result)

parseSections(markdown) ==
  SectionsFrom(ChunksFrom(markdown, SectionCuts(markdown), 1), 1, NoSections)

\* p.languages?.length, p.dependencies?.length
LengthTruthy(v) ==
  \/ v.t = "str" /\ v.s # ""
  \/ v.t = "arr" /\ Len(v.ms) > 0
  \/ v.t = "obj" /\ ~Falsy(Prop(v, "length"))

\* buildPrompt(p) throws when it calls join on a value that is no array
buildPromptThrows(p) ==
  \E k \in {"languages", "dependencies"} :
    LengthTruthy(Prop(p, k)) /\ Prop(p, k).t # "arr"

-----------------------------------------------------------------------------
(* The relay: one request through the serve handler *)

RECURSIVE Repeat(_, _)
\* n copies of s
Repeat(s, n) ==
  IF n = 0 THEN ""
  ELSE LET h == Repeat(s, n \div 2)
       IN  IF n % 2 = 0 THEN h \o h ELSE h \o h \o s

Methods == {"OPTIONS", "GET", "POST"}

\* request bodies, as sent
Bodies ==
  { "{\"owner\":\"acme\",\"repo\":\"widget\"}",
    "{\"owner\":\"acme\",\"repo\":\"widget\",\"description\":\"A kit\","
      \o "\"languages\":[\"TypeScript\"],\"dependencies\":[],"
      \o "\"scripts\":{\"dev\":\"vite\"},\"fileTree\":\"src\"}",
    "{\"owner\":\"acme\",\"repo\":\"widget\",\"languages\":\"TypeScript\"}",
    "{\"owner\":\"acme\"}",
    "{\"owner\":\"\",\"repo\":\"widget\"}",
    "[\"acme\",\"widget\"]",
    "null",
    "owner=acme" }

Requests ==
  { [method |-> m, hasKey |-> k, body |-> b] :
      m \in Methods, k \in BOOLEAN, b \in Bodies }

\* what data?.choices?.[0]?.message?.content is: nothing ("none"), a string
\* ("str") or another value ("other")
Content(k, s) == [k |-> k, s |-> s]

\* texts the provider's reply can hold
ReplyTexts ==
  { "{\"description\":\"  What it is.  \",\"features\":\"- a\\n- b\","
      \o "\"installation\":\"npm ci\",\"usage\":\"run\"}",
    " \n{ \"description\" : \"d\", \"features\" : [\"a\", \"b\"], "
      \o "\"installation\" : 42, \"usage\" : null, \"extra\" : \"x\" }\n",
    "{\"features\":\"- a\",\"features\":\"   \"}",
    "{\"description\":\"" \o Repeat("x", MaxSectionChars + 1) \o "\"}",
    "{\"usage\":\"" \o Repeat("y", MaxSectionChars - 1) \o " z\"}",
    "{}",
    "null",
    "\"## Usage\\nrun\"",
    "[\"## Usage\"]",
    "7",
    "{\"description\":\"a\nb\"}",
    "",
    "No headings here.",
    "## Description\nd\n\n## Features\n- f",
    "Intro\n## Project Description\nLine one\n### Detail\nmore\n\n"
      \o "## FEATURES of note\n- f\n## Other\nzzz\n## Usage\nrun it",
    "## Features\nfirst\n## Installation\n\n## features\nsecond\n",
    "## Features\n## Usage\nu",
    "## Installation\nnpm ci\n## Usage",
    "## \nfeatures\nbody",
    "##Features\nx\n##\nusage\ny",
    "## Usage\r\none\r\ntwo\r\n\r\n## Features  \r\n- f",
    "## Usage\n" \o Repeat("x\n", MaxSectionLines + 50),
    "## Features\n" \o Repeat("z", MaxSectionChars + 1) }

ProviderReplies ==
  { [kind |-> "throw", status |-> 0, readable |-> FALSE, text |-> "",
     json |-> FALSE, content |-> Content("none", "")],
    [kind |-> "http", status |-> 429, readable |-> TRUE, text |-> "rate limited",
     json |-> FALSE, content |-> Content("none", "")],
    [kind |-> "http", status |-> 500, readable |-> FALSE, text |-> "",
     json |-> FALSE, content |-> Content("none", "")],
    [kind |-> "http", status |-> 200, readable |-> TRUE, text |-> "<html>",
     json |-> FALSE, content |-> Content("none", "")],
    [kind |-> "http", status |-> 200, readable |-> TRUE, text |-> "",
     json |-> TRUE, content |-> Content("none", "")],
    [kind |-> "http", status |-> 200, readable |-> TRUE, text |-> "",
     json |-> TRUE, content |-> Content("other", "")] }
  \cup { [kind |-> "http", status |-> 200, readable |-> TRUE, text |-> "",
          json |-> TRUE, content |-> Content("str", t)] : t \in ReplyTexts }

RelayInit ==
  /\ rq \in Requests
  /\ rpc = "received"
  /\ provider = NoProvider
  /\ fallbackRan = FALSE
  /\ outbound = 0
  /\ resp = NoResponse
  /\ ClientInit
  /\ ComposeParked
  /\ TreeParked
  /\ ThemeParked

\* json(data, status) and the preflight reply
Preflight == [status |-> 200, kind |-> "preflight", error |-> Nil,
              sections |-> NoSections, raw |-> ""]
ErrorJson(message, status) ==
  [status |-> status, kind |-> "error", error |-> Str(message),
   sections |-> NoSections, raw |-> ""]
SuccessJson(sections, content) ==
  [status |-> 200, kind |-> "success", error |-> Nil, sections |-> sections,
   raw |-> content]

\* a handler that forwards every POST request whose body is JSON
BeforeAwait_NoOwnerCheck(q, b) ==
  IF q.method = "OPTIONS" THEN Preflight
  ELSE IF q.method # "POST" THEN ErrorJson("Method not allowed", 405)
  ELSE IF ~q.hasKey
  THEN ErrorJson("Missing OPENAI_API_KEY. Add it as a secret for this function.", 500)
  ELSE IF ~b.ok THEN ErrorJson("Invalid JSON body", 400)
  ELSE NoResponse

\* a handler that does not look at the method of a request that is no preflight
BeforeAwait_AnyMethod(q, b) ==
  IF q.method = "OPTIONS" THEN Preflight
  ELSE IF ~q.hasKey
  THEN ErrorJson("Missing OPENAI_API_KEY. Add it as a secret for this function.", 500)
  ELSE ErrorJson("Invalid JSON body", 400)

\* the handler up to its await of the provider request, for the request q whose
\* body parses to b: the response it returns, NoResponse when it goes on
BeforeAwait(q, b) ==
  IF q.method = "OPTIONS" THEN Preflight
  ELSE IF q.method # "POST" THEN ErrorJson("Method not allowed", 405)
  ELSE IF ~q.hasKey
  THEN ErrorJson("Missing OPENAI_API_KEY. Add it as a secret for this function.", 500)
  ELSE IF ~b.ok THEN ErrorJson("Invalid JSON body", 400)
  ELSE IF b.v.t = "null"
  THEN ErrorJson("Cannot read properties of null (reading 'owner')", 500)
  ELSE IF Falsy(Prop(b.v, "owner")) \/ Falsy(Prop(b.v, "repo"))
  THEN ErrorJson("owner and repo are required", 400)
  ELSE IF buildPromptThrows(b.v)
  THEN ErrorJson("p.languages.join is not a function", 500)
  ELSE NoResponse

\* the trimmed content of the provider's reply p, "" when it has none
ContentOf(p) == IF p.content.k = "none" THEN "" ELSE Trim(p.content.s)

\* the try around JSON.parse(content), parsed being what JSON.parse gives: the
\* response, and whether the catch ran parseSections
SectionsOf(content, parsed) ==
  IF parsed.ok /\ parsed.v.t # "null"
  THEN [resp |-> SuccessJson(
                   [description |-> sanitizeStr(Prop(parsed.v, "description")),
                    features |-> sanitizeStr(Prop(parsed.v, "features")),
                    installation |-> sanitizeStr(Prop(parsed.v, "installation")),
                    usage |-> sanitizeStr(Prop(parsed.v, "usage"))],
                   content),
        fallback |-> FALSE]
  ELSE [resp |-> SuccessJson(parseSections(content), content), fallback |-> TRUE]

\* a handler without the outer catch, which hands the provider's status on
AfterAwait_NoCatch(p) ==
  IF p.kind = "throw" \/ (p.status = 200 /\ (~p.json \/ p.content.k = "other"))
  THEN [resp |-> [NoResponse EXCEPT !.kind = "fault"], fallback |-> FALSE]
  ELSE IF p.status # 200
  THEN [resp |-> ErrorJson("OpenAI error", p.status), fallback |-> FALSE]
  ELSE SectionsOf(ContentOf(p), JSONparse(ContentOf(p)))

\* the handler from the provider's reply p to its response
AfterAwait(p) ==
  IF p.kind = "throw"
  THEN [resp |-> ErrorJson("error sending request", 500), fallback |-> FALSE]
  ELSE IF p.status # 200
  THEN [resp |-> ErrorJson("OpenAI error " \o DigitsOf(p.status) \o ": "
                             \o (IF p.readable THEN p.text ELSE "<unreadable>"),
                           500),
        fallback |-> FALSE]
  ELSE IF ~p.json
  THEN [resp |-> ErrorJson("Unexpected token", 500), fallback |-> FALSE]
  ELSE IF p.content.k = "other"
  THEN [resp |-> ErrorJson("data?.choices?.[0]?.message?.content?.trim is not a function",
                           500),
        fallback |-> FALSE]
  ELSE SectionsOf(ContentOf(p), JSONparse(ContentOf(p)))

Receive ==
  /\ rpc = "received"
  /\ \E early \in {BeforeAwait(rq, JSONparse(rq.body))} :
       IF early # NoResponse
       THEN /\ resp' = early
            /\ rpc' = "done"
            /\ UNCHANGED outbound
       ELSE /\ outbound' = outbound + 1
            /\ rpc' = "awaiting"
            /\ UNCHANGED resp
  /\ UNCHANGED <<rq, provider, fallbackRan>>

ProviderSettles ==
  /\ rpc = "awaiting"
  /\ \E p \in ProviderReplies :
       /\ provider' = p
       /\ \E out \in {AfterAwait(p)} :
            /\ resp' = out.resp
            /\ fallbackRan' = out.fallback
  /\ rpc' = "done"
  /\ UNCHANGED <<rq, outbound>>

RelayNext ==
  \/ Receive /\ UNCHANGED <<clientVars, composeVars, treeVars, themeVars>>
  \/ ProviderSettles /\ UNCHANGED <<clientVars, composeVars, treeVars, themeVars>>

RelaySpec == RelayInit /\ [][RelayNext]_vars

-----------------------------------------------------------------------------
(* The relay's two ways of reading the provider's reply *)

\* the handler has answered a provider reply that carried a body it could read
Replied ==
  /\ rpc = "done"
  /\ provider.kind = "http"
  /\ provider.status = 200
  /\ provider.json
  /\ provider.content.k # "other"

\* a JSON member as the response is to show it: its text trimmed and cut to
\* 12000 characters when it is a string, nothing otherwise
Shown(v) ==
  IF v.t # "str" THEN Nil
  ELSE Str(SubSeq(Trim(v.s), 1, MinOf(Len(Trim(v.s)), MaxSectionChars)))

\* the four keys of the response are the reply's members, as shown
MembersShown(parsed) ==
  /\ DOMAIN resp.sections = SectionKeys
  /\ \A k \in SectionKeys :
       \A v \in {IF parsed.v.t = "null" THEN Undefined ELSE Prop(parsed.v, k)} :
         resp.sections[k] = Shown(v)

\* C9 as stated: for every provider reply that parses as JSON, the returned
\* sections hold only the four keys, each the trimmed and 12000-capped string
\* of the reply or absent, and parseSections is not invoked
C9_AsStated ==
  Replied =>
    \A parsed \in {JSONparse(ContentOf(provider))} :
      parsed.ok =>
        /\ resp.kind = "success"
        /\ MembersShown(parsed)
        /\ ~fallbackRan

\* C9: for every provider reply that parses as JSON, the returned sections hold
\* only the four keys description, features, installation and usage, each the
\* trimmed and 12000-capped string of the reply or absent when the reply's
\* value is no string; parseSections is not invoked unless the reply is the
\* JSON value null, for which it is invoked and no key is set
C9_JsonPath ==
  Replied =>
    \A parsed \in {JSONparse(ContentOf(provider))} :
      parsed.ok =>
        /\ resp.kind = "success"
        /\ MembersShown(parsed)
        /\ fallbackRan <=> parsed.v.t = "null"
        /\ provider.content.s =
             " \n{ \"description\" : \"d\", \"features\" : [\"a\", \"b\"], "
               \o "\"installation\" : 42, \"usage\" : null, \"extra\" : \"x\" }\n"
           => resp.sections = [NoSections EXCEPT !.description = Str("d")]

\* a reply whose description is a string of 12001 characters has been answered
\* with its first 12000, without parseSections
C9_Witness ==
  /\ Replied
  /\ provider.content.s = "{\"description\":\"" \o Repeat("x", MaxSectionChars + 1) \o "\"}"
  /\ resp.sections = [NoSections EXCEPT !.description = Str(Repeat("x", MaxSectionChars))]
  /\ ~fallbackRan

\* the sections the Markdown reading is stated to give: the reply cut at its
\* level-2 heading lines, each block's key chosen by how its heading text
\* begins, its value the trimmed lines under the heading, at most 400 of them
StatedSections(md) ==
  LET pieces == SplitOn(md, "\n")
      ln == [i \in 1..Len(pieces) |->
               IF EndsWith(pieces[i], "\r")
               THEN SubSeq(pieces[i], 1, Len(pieces[i]) - 1) ELSE pieces[i]]
      heads == {i \in 1..Len(ln) :
                  /\ StartsWith(ln[i], "##")
                  /\ Len(ln[i]) >= 3
                  /\ Ch(ln[i], 3) \in {" ", "\t"}}
      Title(i) == ToLower(Trim(DropStr(ln[i], 2)))
      Begins(i, k) ==
        IF k = "description"
        THEN StartsWith(Title(i), "project description")
               \/ StartsWith(Title(i), "description")
        ELSE StartsWith(Title(i), k)
      End(i) ==
        LET later == {h \in heads : h > i}
        IN  IF later = {} THEN Len(ln)
            ELSE (CHOOSE h \in later : \A g \in later : h <= g) - 1
      Body(i) ==
        JoinWith(FirstN(SplitOn(Trim(JoinWith(SubSeq(ln, i + 1, End(i)), "\n")), "\n"),
                        MaxSectionLines), "\n")
      Value(k) ==
        LET hits == {i \in heads : Begins(i, k)}
        IN  IF hits = {} THEN Nil
            ELSE Str(Body(CHOOSE h \in hits : \A g \in hits : g <= h))
  IN  [description |-> Value("description"), features |-> Value("features"),
       installation |-> Value("installation"), usage |-> Value("usage")]

\* C10 as stated: for every provider reply that is not valid JSON, each block
\* of the reply under a level-2 heading whose text begins, in any case, with
\* "project description" or "description", "features", "installation" or
\* "usage" sets that key to its trimmed body cut to 400 lines; other blocks and
\* the text before the first heading set nothing
C10_AsStated ==
  Replied =>
    \A content \in {ContentOf(provider)} :
      ~JSONparse(content).ok =>
        /\ resp.kind = "success"
        /\ fallbackRan
        /\ resp.sections = StatedSections(content)
        /\ content = "## Description\nd\n\n## Features\n- f"
           => resp.sections = [NoSections EXCEPT !.description = Str("d"),
                                                 !.features = Str("- f")]

\* the strings of a success response: its present sections and its raw text
ResponseStrings ==
  {resp.sections[k].v : k \in {j \in SectionKeys : ~resp.sections[j].nil}}
    \cup {resp.raw}

\* C11 as stated: in every success response, on the JSON path and on the
\* Markdown path, each present section and the raw text is trimmed and at most
\* 12000 characters long
C11_AsStated ==
  (rpc = "done" /\ resp.kind = "success")
    => \A t \in ResponseStrings : Trim(t) = t /\ Len(t) <= MaxSectionChars

-----------------------------------------------------------------------------
(* The relay's answers to requests it does not forward *)

\* the response is a JSON body with an error field and the given status
ErrorWith(status) ==
  /\ resp.kind = "error"
  /\ resp.status = status
  /\ ~resp.error.nil

\* C12 as stated: every request whose method is not POST is answered with
\* status 405, every POST request without a configured credential with status
\* 500, both with a JSON body holding an error field
C12_AsStated ==
  rpc = "done"
    => /\ rq.method # "POST" => ErrorWith(405)
       /\ (rq.method = "POST" /\ ~rq.hasKey) => ErrorWith(500)

\* C12: every request whose method is neither POST nor OPTIONS is answered with
\* status 405, every POST request without a configured credential with status
\* 500, both with a JSON body holding an error field; an OPTIONS request is
\* answered with the preflight reply, status 200 and no error field
C12_Rejects ==
  rpc = "done"
    => /\ rq.method \notin {"POST", "OPTIONS"} => ErrorWith(405)
       /\ (rq.method = "POST" /\ ~rq.hasKey) => ErrorWith(500)
       /\ rq.method = "OPTIONS" => resp = Preflight /\ resp.status = 200

\* a GET request that came with a credential configured was answered with 405
C12_Witness ==
  /\ rpc = "done"
  /\ rq.method = "GET" /\ rq.hasKey
  /\ ErrorWith(405)
  /\ resp.error = Str("Method not allowed")

\* body.key as the handler reads it from the parsed body v; nothing is read
\* from null
Member(v, key) == IF v.t = "null" THEN Undefined ELSE Prop(v, key)

\* the member is absent or the empty string
AbsentOrEmpty(m) == m.t = "undefined" \/ (m.t = "str" /\ m.s = "")

\* C13 as stated: a POST request with a credential configured whose body
\* parses as JSON, whatever the value, with owner or repo absent or empty is
\* answered with status 400 and a JSON body holding an error field; so is one
\* whose body is not valid JSON
C13_AsStated ==
  (rpc = "done" /\ rq.method = "POST" /\ rq.hasKey)
    => \A b \in {JSONparse(rq.body)} :
         /\ ~b.ok => ErrorWith(400)
         /\ (b.ok /\ \E k \in {"owner", "repo"} : AbsentOrEmpty(Member(b.v, k)))
              => ErrorWith(400)

\* the response is the preflight reply, a success body, or a JSON body with an
\* error field and status 400, 405 or 500
WellFormedResponse ==
  \/ resp = Preflight
  \/ resp.kind = "success" /\ resp.status = 200 /\ resp.error.nil
  \/ \E st \in {400, 405, 500} : ErrorWith(st)

\* what the handler has answered is well formed, and a provider reply with a
\* non-success status is answered with status 500 and a message holding that
\* status and the reply's text
Answered ==
  rpc = "done"
    => /\ WellFormedResponse
       /\ (provider.kind = "http" /\ provider.status # 200)
            => /\ ErrorWith(500)
               /\ (provider.status = 429 /\ provider.text = "rate limited")
                    => resp.error = Str("OpenAI error 429: rate limited")
               /\ (provider.status = 500 /\ ~provider.readable)
                    => resp.error = Str("OpenAI error 500: <unreadable>")
       /\ (provider.kind = "throw" \/ (provider.kind = "http" /\ provider.status = 200
                                        /\ ~provider.json))
            => ErrorWith(500)

\* C14: for every request and every provider behaviour the handler ends with a
\* response and in no other way, and the response is the preflight reply, a
\* success body, or a JSON body with an error field and status 400, 405 or
\* 500; a provider reply with a
\* non-success status yields status 500 with the provider's status code and
\* body text (or <unreadable>) in the error message
C14_AlwaysResponds ==
  /\ Answered
  /\ rpc \in {"received", "awaiting", "done"}
  /\ rpc = "done" <=> resp # NoResponse
  /\ rpc = "awaiting" => outbound = 1 /\ provider = NoProvider

\* a provider reply 500 whose body could not be read has been answered
C14_Witness ==
  /\ rpc = "done"
  /\ provider.kind = "http" /\ provider.status = 500 /\ ~provider.readable
  /\ resp.status = 500
  /\ resp.error = Str("OpenAI error 500: <unreadable>")

\* the request may be forwarded: a POST request, a credential configured, a
\* body that is JSON and holds a non-empty owner and repo
Forwardable ==
  /\ rq.method = "POST"
  /\ rq.hasKey
  /\ \A b \in {JSONparse(rq.body)} :
       /\ b.ok
       /\ \A k \in {"owner", "repo"} : ~AbsentOrEmpty(Member(b.v, k))

\* C15: the provider is requested at most once per incoming request and only
\* for a POST request with a credential configured whose body parsed as JSON
\* with owner and repo present; a request answered without a provider reply
\* (invalid input, missing credential, wrong method, preflight) has caused no
\* outbound request
C15_OutboundOnce ==
  /\ outbound \in {0, 1}
  /\ outbound = 1 => Forwardable
  /\ (rpc = "done" /\ provider = NoProvider) => outbound = 0
  /\ (rpc = "done" /\ resp.kind = "error" /\ resp.status \in {400, 405})
       => outbound = 0 /\ provider = NoProvider
  /\ (rpc = "done" /\ ~rq.hasKey) => outbound = 0
  /\ provider # NoProvider => outbound = 1

\* a request has been forwarded once and its provider reply answered
C15_Witness ==
  /\ rpc = "done"
  /\ outbound = 1
  /\ provider # NoProvider
  /\ rq.body = "{\"owner\":\"acme\",\"repo\":\"widget\"}"

-----------------------------------------------------------------------------
(* formatFileTree and guessPackageManager over drawn tree listings *)

\* the items a listing is drawn from: plain files and directories, names that
\* differ in case, denylisted names at the root and below it, a denylisted
\* name on a file, lockfiles, a "__" name and an inherited property name
TreePool ==
  << Item("src/main.ts", "blob"),
     Item("src/Zeta.ts", "blob"),
     Item("src/dist/out.js", "blob"),
     Item("node_modules/react/index.js", "blob"),
     Item("a.txt", "blob"),
     Item("B.txt", "blob"),
     Item("docs/build/x.html", "blob"),
     Item("coverage", "blob"),
     Item("__tests__/a.js", "blob"),
     Item("constructor/x.js", "blob"),
     Item("pnpm-lock.yaml", "blob"),
     Item("packages/app/Yarn.lock", "blob"),
     Item("bun.lockb", "blob") >>

\* at most this many pool items in one listing
MaxListing == 3

\* the listing of a deep tree has this many top-level directories, each with
\* one file six directories down: seven rendered lines per directory
BigDirs == 43
BigTail == "/a/b/c/d/e/f"

Pad2(n) == IF n < 10 THEN "0" \o DigitsOf(n) ELSE DigitsOf(n)
BigName(n) == "d" \o Pad2(n)
BigListing(n) == [i \in 1..n |-> Item(BigName(i) \o BigTail, "blob")]

Reverse(s) == [i \in 1..Len(s) |-> s[Len(s) + 1 - i]]

RECURSIVE Pick(_, _, _)
\* the items of pool at the indices of S that are >= i, in pool order
Pick(pool, S, i) ==
  IF i > Len(pool) THEN <<>>
  ELSE (IF i \in S THEN <<pool[i]>> ELSE <<>>) \o Pick(pool, S, i + 1)

\* GitTreeResponse.tree as handed to formatFileTree
Listings ==
  LET small == {Pick(TreePool, S, 1) :
                  S \in {T \in SUBSET (1..Len(TreePool)) : Cardinality(T) <= MaxListing}}
  IN  small \cup {Reverse(l) : l \in small}
        \cup {BigListing(BigDirs - 1), BigListing(BigDirs), Reverse(BigListing(BigDirs))}

PathsOf(items) == [i \in 1..Len(items) |-> items[i].path]

NotGuessed == ""

TreeInit ==
  /\ listing \in Listings
  /\ formatted = NotFormatted
  /\ guessed = NotGuessed
  /\ ClientInit
  /\ ComposeParked
  /\ RelayParked
  /\ ThemeParked

\* fileTree = formatFileTree(treeResp.tree)
Format ==
  /\ ~formatted.done
  /\ \E f \in {formatFileTree(listing)} :
       formatted' = [done |-> TRUE, ok |-> f.ok, text |-> f.text]
  /\ UNCHANGED <<listing, guessed>>

\* pm: guessPackageManager(paths)
Guess ==
  /\ guessed = NotGuessed
  /\ guessed' = guessPackageManager(PathsOf(listing))
  /\ UNCHANGED <<listing, formatted>>

TreeNext ==
  \/ Format /\ UNCHANGED <<clientVars, composeVars, relayVars, themeVars>>
  \/ Guess /\ UNCHANGED <<clientVars, composeVars, relayVars, themeVars>>

TreeSpec == TreeInit /\ [][TreeNext]_vars

-----------------------------------------------------------------------------
(* Reading a rendered tree back *)

\* the rendered lines of a formatted text
RenderedLines(text) == IF text = "" THEN <<>> ELSE SplitOn(text, "\n")

RECURSIVE ConnectorAt(_, _)
\* the index at which the connector of a line stands, after the extension
\* prefixes of its ancestors
ConnectorAt(line, i) ==
  IF StartsWithAt(line, LastExtension, i) \/ StartsWithAt(line, BranchExtension, i)
  THEN ConnectorAt(line, i + 4)
  ELSE i

DepthOf(line) == ((ConnectorAt(line, 1) - 1) \div 4) + 1
NameOf(line) == DropStr(line, ConnectorAt(line, 1) + 3)

\* the line above line k that is its parent directory, 0 at the top level
ParentLine(depths, k) ==
  IF depths[k] = 1 THEN 0
  ELSE CHOOSE m \in 1..(k - 1) :
         /\ depths[m] = depths[k] - 1
         /\ \A j \in (m + 1)..(k - 1) : depths[j] >= depths[k]

RECURSIVE PathAt(_, _, _)
PathAt(lines, depths, k) ==
  IF k = 0 THEN <<>>
  ELSE PathAt(lines, depths, ParentLine(depths, k)) \o <<NameOf(lines[k])>>

\* the paths of the rendered entries, in the order of their lines
RenderedPaths(text) ==
  LET lines == RenderedLines(text)
      depths == [k \in 1..Len(lines) |-> DepthOf(lines[k])]
  IN  [k \in 1..Len(lines) |-> PathAt(lines, depths, k)]

-----------------------------------------------------------------------------
(* Claims on the rendered tree *)

\* the nodes of a listing: every non-empty prefix of the segments of a path
Nodes(items) ==
  UNION {LET parts == SplitOn(items[i].path, "/")
         IN  {SubSeq(parts, 1, n) : n \in 1..Len(parts)} : i \in 1..Len(items)}

Formatted == formatted.done /\ formatted.ok

\* C16: for every listing, each rendered entry is a node of the listing none
\* of whose segments, at any depth, is a denylisted name: no denylisted entry
\* is rendered and no descendant of one is
C16_NoDenylisted ==
  Formatted =>
    \A rendered \in {RenderedPaths(formatted.text)} :
      \A k \in 1..Len(rendered) :
        /\ rendered[k] \in Nodes(listing)
        /\ \A i \in 1..Len(rendered[k]) : rendered[k][i] \notin skipDirs

\* a listing with denylisted directories below two plain directories: both
\* plain directories are rendered, bare
C16_Witness ==
  /\ Formatted
  /\ listing = <<Item("src/Zeta.ts", "blob"), Item("src/dist/out.js", "blob"),
                 Item("docs/build/x.html", "blob")>>
  /\ formatted.text = "|-- docs\n+-- src\n    +-- Zeta.ts"

\* line k of the full rendering of BigListing(n), written out: seven lines
\* for each directory, the last directory with the closing connector and a
\* blank extension
BigSegments == <<"a", "b", "c", "d", "e", "f">>
BigLine(n, k) ==
  LET dir == ((k - 1) \div 7) + 1
      j == (k - 1) % 7
      last == dir = n
  IN  IF j = 0
      THEN (IF last THEN LastConnector ELSE BranchConnector) \o BigName(dir)
      ELSE (IF last THEN LastExtension ELSE BranchExtension)
             \o Repeat(LastExtension, j - 1) \o LastConnector \o BigSegments[j]

IsBig(items, n) == items \in {BigListing(n), Reverse(BigListing(n))}

\* C17: the output has at most 300 lines, they are the first 300 lines of the
\* full rendering (all of them when it has fewer), and a listing that renders
\* to more lines still gives a text: the only failure is a path through an
\* inherited property name, whatever the size
C17_First300 ==
  /\ (formatted.done /\ ~formatted.ok) =>
       \E i \in 1..Len(listing) :
         \E parts \in {SplitOn(listing[i].path, "/")} :
           \E n \in 1..Len(parts) : parts[n] \in ProtoNames
  /\ Formatted =>
       \A lines \in {RenderedLines(formatted.text)} :
         /\ Len(lines) <= MaxTreeLines
         /\ \A full \in {render(BuildTree(EmptyTree, listing, 1).tr)} :
              /\ Len(lines) = MinOf(MaxTreeLines, Len(full))
              /\ \A k \in 1..Len(lines) : lines[k] = full[k]
         /\ \A n \in {BigDirs - 1, BigDirs} :
              IsBig(listing, n) =>
                /\ Len(lines) = MinOf(MaxTreeLines, 7 * n)
                /\ \A k \in 1..Len(lines) : lines[k] = BigLine(n, k)

\* the deep listing renders to more than 300 lines and the text holds 300:
\* the last one kept is the sixth line of the last directory
C17_Witness ==
  /\ Formatted
  /\ listing = BigListing(BigDirs)
  /\ 7 * BigDirs > MaxTreeLines
  /\ \E lines \in {RenderedLines(formatted.text)} :
       /\ Len(lines) = MaxTreeLines
       /\ lines[MaxTreeLines] = BigLine(BigDirs, MaxTreeLines)

\* the printable characters in code-unit order (the grave accent left out)
OrdinalOrder ==
  " !\"#$%&'()*+,-./0123456789:;<=>?@ABCDEFGHIJKLMNOPQRSTUVWXYZ[\\]^_abcdefghijklmnopqrstuvwxyz{|}~"

OrdinalRank(c) == CHOOSE i \in 1..Len(OrdinalOrder) : Ch(OrdinalOrder, i) = c

RECURSIVE OrdinalLess(_, _, _)
\* a < b from index i on, comparing code units
OrdinalLess(a, b, i) ==
  IF i > Len(b) THEN FALSE
  ELSE IF i > Len(a) THEN TRUE
  ELSE IF Ch(a, i) = Ch(b, i) THEN OrdinalLess(a, b, i + 1)
  ELSE OrdinalRank(Ch(a, i)) < OrdinalRank(Ch(b, i))

ParentOf(path) == SubSeq(path, 1, Len(path) - 1)

\* C18: the siblings of every directory stand in strictly ascending ordinal,
\* case-sensitive order of their names
C18_AsStated ==
  Formatted =>
    \A rendered \in {RenderedPaths(formatted.text)} :
      \A i, j \in 1..Len(rendered) :
        (i < j /\ ParentOf(rendered[i]) = ParentOf(rendered[j])) =>
          OrdinalLess(rendered[i][Len(rendered[i])], rendered[j][Len(rendered[j])], 1)

-----------------------------------------------------------------------------
(* Claims on guessPackageManager *)

\* the listing holds a file of this name, in any directory and any letter case
HasFile(items, name) ==
  \E i \in 1..Len(items) :
    \E parts \in {SplitOn(items[i].path, "/")} : ToLower(parts[Len(parts)]) = name

\* C19: guessPackageManager answers every path list with one of the four
\* names: pnpm when a pnpm-lock.yaml is listed, whatever else is; else yarn
\* when a yarn.lock is; else bun when a bun.lockb is; else npm, which is also
\* the answer to the empty list
C19_Priority ==
  guessed # NotGuessed =>
    /\ guessed \in {"pnpm", "yarn", "bun", "npm"}
    /\ guessed = IF HasFile(listing, "pnpm-lock.yaml") THEN "pnpm"
                 ELSE IF HasFile(listing, "yarn.lock") THEN "yarn"
                 ELSE IF HasFile(listing, "bun.lockb") THEN "bun"
                 ELSE "npm"
    /\ listing = <<>> => guessed = "npm"

\* the three lockfiles together, the pnpm one listed last
C19_Witness ==
  /\ guessed = "pnpm"
  /\ listing = <<Item("bun.lockb", "blob"), Item("packages/app/Yarn.lock", "blob"),
                 Item("pnpm-lock.yaml", "blob")>>

-----------------------------------------------------------------------------
(* Claims on the requests of one invocation *)

\* the index of the one request x in the calls, 0 when it was not issued
CallAt(x) ==
  IF \E i \in 1..Len(calls) : calls[i] = x
  THEN CHOOSE i \in 1..Len(calls) : calls[i] = x
  ELSE 0

\* the calls of an invocation at most once each; the tree by sha follows the
\* branch lookup, which follows the tree by branch name; and an invocation
\* whose tree lookups all failed ends with a document and no error
NoRetry ==
  /\ \A c \in {"repo", "languages", "topics", "manifest", "relay",
               "tree", "branch", "treeBySha"} : Count(calls, c) <= 1
  /\ \A i \in 1..Len(calls) :
       calls[i] \in {"repo", "languages", "topics", "manifest", "relay",
                     "tree", "branch", "treeBySha"}
  /\ Count(calls, "tree") + Count(calls, "treeBySha") <= 2
  /\ CallAt("branch") # 0 =>
       /\ CallAt("tree") # 0
       /\ CallAt("branch") = CallAt("tree") + 1
  /\ CallAt("treeBySha") # 0 =>
       /\ CallAt("branch") # 0
       /\ CallAt("treeBySha") = CallAt("branch") + 1
  /\ CallAt("tree") # 0 => cl.includeTree
  /\ (pc = "idle" /\ loc.tree = "failed") =>
       /\ CallAt("branch") # 0
       /\ loc.outcome = "generated"
       /\ readme # EmptyDoc
       /\ loc.fileTree = "" /\ loc.paths = <<>>
       /\ \A i \in 1..Len(toast) : toast[i].title # "Error"

\* a step that issues a request issues one: the tree by branch name while
\* the four first requests are joined, the branch lookup while the tree by
\* branch name is awaited, the tree by sha while the branch lookup is
IssuesInTurn ==
  calls' # calls =>
    \/ pc = "idle" /\ calls' \in {<<>>, <<"repo", "languages", "topics", "manifest">>}
    \/ /\ pc # "idle"
       /\ \E c \in {"tree", "branch", "treeBySha", "relay"} :
            /\ calls' = Append(calls, c)
            /\ c = "tree" => pc = "join"
            /\ c = "branch" => pc = "tree1" /\ pc' = "branch"
            /\ c = "treeBySha" => pc = "branch" /\ pc' = "tree2"
            /\ c = "relay" => pc \in {"join", "tree1", "branch", "tree2"} /\ pc' = "ai"

\* C20: within one invocation no request is repeated: repository, languages,
\* topics, manifest and relay are requested at most once; at most two tree
\* requests are made, the second by sha only after the first by branch name
\* failed and the branch lookup gave a sha; when the lookups fail the
\* invocation goes on without a tree and ends with a document
C20_NoRetry == []NoRetry /\ [][IssuesInTurn]_vars

\* both tree requests and the branch lookup were made, the tree by sha
\* failed, and the invocation ended with a document
C20_Witness ==
  /\ pc = "idle"
  /\ calls = <<"repo", "languages", "topics", "manifest",
               "tree", "branch", "treeBySha", "relay">>
  /\ loc.tree = "failed"
  /\ loc.outcome = "generated"

\* the tree lookup of the invocation has come to its end
TreeLookupDone == loc.tree \in {"listed", "notree", "failed"}

\* wherever the relay request has been issued: AI was asked for, the URL
\* parsed, all four first requests have settled and the repository one with
\* a record, the tree lookup (when enabled) was started before and is over,
\* and nothing was requested after it
RelayLast ==
  /\ ~cl.parsed.ok => calls = <<>>
  /\ CallAt("relay") # 0 =>
       /\ cl.useAI
       /\ cl.parsed.ok
       /\ \A k \in DOMAIN pending : pending[k].st = Settled
       /\ pending.repo.status = 200
       /\ CallAt("relay") = Len(calls)
       /\ \A c \in {"repo", "languages", "topics", "manifest"} :
            CallAt(c) # 0 /\ CallAt(c) < CallAt("relay")
       /\ cl.includeTree =>
            /\ CallAt("tree") # 0 /\ CallAt("tree") < CallAt("relay")
            /\ TreeLookupDone
       /\ ~cl.includeTree => CallAt("tree") = 0

\* the step that issues the relay request starts from settled requests
RelayIssued ==
  (CallAt("relay") = 0 /\ CallAt("relay")' # 0) =>
    /\ pc \in {"join", "tree1", "branch", "tree2"}
    /\ pc' = "ai"
    /\ \A k \in DOMAIN pending : pending'[k].st = Settled
    /\ pc = "join" => ~cl.includeTree

\* C21: the relay request is sent only after the repository, languages,
\* topics and manifest retrievals, and the tree lookup when enabled, have
\* completed; it is never sent for an invalid URL, after a failed repository
\* retrieval, or with AI enhancement off
C21_RelayAfterMetadata == []RelayLast /\ [][RelayIssued]_vars

\* the relay request goes out after a tree lookup that took both tries
C21_Witness ==
  /\ pc = "ai"
  /\ cl.useAI /\ cl.includeTree
  /\ calls = <<"repo", "languages", "topics", "manifest",
               "tree", "branch", "treeBySha", "relay">>
  /\ loc.tree = "listed"

-----------------------------------------------------------------------------
(* Claims on the connectors of the rendered tree *)

ConnectorOf(line) ==
  SubSeq(line, ConnectorAt(line, 1), ConnectorAt(line, 1) + 3)

\* the four characters a line carries for its ancestor at depth d
ExtensionAt(line, d) == SubSeq(line, 4 * (d - 1) + 1, 4 * d)

\* line m lies below line k: every line from k + 1 to m is deeper than k
Below(depths, k, m) == k < m /\ \A j \in (k + 1)..m : depths[j] > depths[k]

\* no later line is a sibling of line k
LastRendered(depths, k) ==
  ~\E m \in (k + 1)..Len(depths) :
      /\ depths[m] = depths[k]
      /\ \A j \in (k + 1)..(m - 1) : depths[j] > depths[k]

\* C22 (as stated): in a rendering that was not cut, the last rendered
\* sibling of every level has the closing connector and its descendants a
\* blank extension, and every other rendered sibling has the branch connector
\* and its descendants the pipe extension, denylisted siblings or not
C22_AsStated ==
  Formatted =>
    \A lines \in {RenderedLines(formatted.text)} :
      Len(lines) < MaxTreeLines =>
        \A depths \in {[k \in 1..Len(lines) |-> DepthOf(lines[k])]} :
          \A k \in 1..Len(lines) :
            \A last \in {LastRendered(depths, k)} :
              /\ ConnectorOf(lines[k]) =
                   (IF last THEN LastConnector ELSE BranchConnector)
              /\ \A m \in (k + 1)..Len(lines) :
                   Below(depths, k, m) =>
                     ExtensionAt(lines[m], depths[k]) =
                       (IF last THEN LastExtension ELSE BranchExtension)

\* the nodes of a listing that have no denylisted name on their path
Undenied(items) ==
  {q \in Nodes(items) : \A i \in 1..Len(q) : q[i] \notin skipDirs}

\* C23 (as stated): a rendering that was not cut holds every node of the
\* listing exactly once under its parent, unless the node's name or that of
\* an ancestor is denylisted; no other name makes an entry disappear
C23_AsStated ==
  formatted.done =>
    \A rendered \in {RenderedPaths(formatted.text)} :
      Len(rendered) < MaxTreeLines =>
        \A q \in Undenied(listing) : Count(rendered, q) = 1

-----------------------------------------------------------------------------
(* Claims on loading and the displayed document *)

\* the running invocation is suspended at an await of a network call
AwaitsCall ==
  /\ pc \in {"join", "tree1", "branch", "tree2", "ai"}
  /\ pc = "join" => \E k \in DOMAIN pending : pending[k].st = Waiting

\* how many completions an invocation is from its end at most
StepsLeft ==
  IF pc = "idle" THEN 0
  ELSE IF pc = "ai" THEN 1
  ELSE IF pc = "tree2" THEN 2
  ELSE IF pc = "branch" THEN 3
  ELSE IF pc = "tree1" THEN 4
  ELSE 4 + Cardinality({k \in DOMAIN pending : pending[k].st = Waiting})

\* while an invocation runs, loading is set, the document is cleared and a
\* call is awaited; once it has ended, loading is off, and a document is shown exactly when
\* the invocation generated one
LoadingBrackets ==
  /\ pc # "idle" => loading /\ readme = EmptyDoc /\ AwaitsCall
  /\ pc = "idle" =>
       /\ ~loading
       /\ loc.outcome \in {"none", "invalid", "error", "generated"}
       /\ loc.outcome \in {"none", "invalid", "error"} => readme = EmptyDoc
       /\ loc.outcome = "generated" => readme # EmptyDoc

\* a submission clears the document shown before, whatever it was
SubmitClears == (pc = "idle" /\ cl' # cl) => readme' = EmptyDoc

\* every completion brings a running invocation nearer to its end
Advances == pc # "idle" => StepsLeft' < StepsLeft

\* C24: every invocation sets loading and clears the document at its start;
\* it waits only for network calls, each completion brings it nearer to its
\* end, and it ends, on every exit path, with loading off; a document is set
\* on the success path only, so the document shown after a failed generation
\* is empty
C24_LoadingEnds ==
  /\ []LoadingBrackets
  /\ [][SubmitClears /\ Advances]_vars

\* an invalid URL submitted after an invocation that had fetched a
\* repository: loading is off and no document is shown
C24_Witness ==
  /\ pc = "idle"
  /\ loc.outcome = "invalid"
  /\ repoInfo # NoRepoInfo
  /\ ~loading
  /\ readme = EmptyDoc

-----------------------------------------------------------------------------
(* The theme: initTheme of main.tsx and the ThemeToggle component *)

\* what localStorage may hold under "theme" when the page loads: nothing, one
\* of the two themes, or a value written by something else
StoredAtLoad == {NoTheme, "dark", "light", "sepia"}

\* the system preference changes at most this often
MaxChanges == 4

Scheme(dark) == IF dark THEN "dark" ELSE "light"

ThemeInit ==
  /\ stored \in StoredAtLoad
  /\ prefersDark \in BOOLEAN
  /\ theme = NoTheme
  /\ rootDark = FALSE
  /\ colorScheme = ""
  /\ tpc = "boot"
  /\ chosen = (stored # NoTheme)
  /\ changes = 0
  /\ ClientInit
  /\ ComposeParked
  /\ RelayParked
  /\ TreeParked

\* initTheme() of main.tsx
InitTheme ==
  /\ tpc = "boot"
  /\ \E isDark \in {IF stored # NoTheme THEN stored = "dark" ELSE prefersDark} :
       /\ rootDark' = isDark
       /\ colorScheme' = Scheme(isDark)
  /\ tpc' = "inited"
  /\ UNCHANGED <<stored, prefersDark, theme, chosen, changes>>

\* getInitialTheme()
getInitialTheme == IF stored # NoTheme THEN stored ELSE Scheme(prefersDark)

\* setTheme(next), run by the effect on [theme] after a render with a new theme
SetTheme(next) ==
  /\ rootDark' = (next = "dark")
  /\ colorScheme' = next
  /\ stored' = next

\* ThemeToggle mounts: useState(getInitialTheme), then the two effects, the
\* first of which runs setTheme(theme), the second adds the change listener
Mount ==
  /\ tpc = "inited"
  /\ theme' = getInitialTheme
  /\ SetTheme(getInitialTheme)
  /\ tpc' = "mounted"
  /\ UNCHANGED <<prefersDark, chosen, changes>>

\* toggle: setThemeState(t => t === "dark" ? "light" : "dark"), then the
\* effect on [theme]
Toggle ==
  /\ tpc = "mounted"
  /\ \E next \in {IF theme = "dark" THEN "light" ELSE "dark"} :
       /\ theme' = next
       /\ SetTheme(next)
  /\ chosen' = TRUE
  /\ UNCHANGED <<prefersDark, tpc, changes>>

\* the system preference changes; once the component is mounted its listener
\* onChange runs: if (!localStorage.getItem("theme")) setThemeState(...)
SystemChange ==
  /\ changes < MaxChanges
  /\ tpc \in {"boot", "inited", "mounted"}
  /\ prefersDark' = ~prefersDark
  /\ changes' = changes + 1
  /\ IF tpc = "mounted" /\ stored = NoTheme
     THEN /\ theme' = Scheme(~prefersDark)
          /\ SetTheme(Scheme(~prefersDark))
     ELSE UNCHANGED <<theme, rootDark, colorScheme, stored>>
  /\ UNCHANGED <<tpc, chosen>>

ThemeNext ==
  \/ InitTheme /\ UNCHANGED <<clientVars, composeVars, relayVars, treeVars>>
  \/ Mount /\ UNCHANGED <<clientVars, composeVars, relayVars, treeVars>>
  \/ Toggle /\ UNCHANGED <<clientVars, composeVars, relayVars, treeVars>>
  \/ SystemChange /\ UNCHANGED <<clientVars, composeVars, relayVars, treeVars>>

ThemeSpec == ThemeInit /\ [][ThemeNext]_vars

-----------------------------------------------------------------------------
(* Claims on the theme *)

\* C25 (as stated): once the component has mounted, a change of the system
\* preference sets the theme to the new preference when no theme was stored
\* at load and the user never toggled, and leaves the theme alone once the
\* user has toggled
FollowsSystem ==
  (tpc = "mounted" /\ prefersDark' # prefersDark) =>
    /\ ~chosen => theme' = Scheme(prefersDark')
    /\ chosen => theme' = theme

C25_AsStated == [][FollowsSystem]_vars

=============================================================================
